---- MODULE Spec2Model ----
(***************************************************************************)
(* A model of email-explorer: the MailboxDO store (credential mode and     *)
(* mailbox mode, packages/worker/src/durableObject/index.ts), and the      *)
(* worker's fetch entry point with its route handlers.                     *)
(*                                                                         *)
(* Time is counted in days: the code's clock is Date.now() in              *)
(* milliseconds and one unit here is 24*60*60*1000 of them.  Opaque ids    *)
(* (crypto.randomUUID()) are drawn from counters, so they never repeat.    *)
(* The created_at / updated_at columns of users are left out: no           *)
(* operation reads them.                                                   *)
(***************************************************************************)
EXTENDS Integers, Sequences, FiniteSets, TLC

(***************************************************************************)
(* Bounds of the model and constants of the program.                       *)
(***************************************************************************)
\* login: expiresAt = now + 30 * 24 * 60 * 60 * 1000, in days
SessionDays == 30
\* the clock is sampled every TickDays days, up to MaxTime
TickDays == 10
MaxTime == 40
\* how many sessions login may mint in one run
MaxSessions == 2
\* how many requests may be inside ensureDefaultAdmins at once
MaxCallers == 2
\* how many sessions the login route may mint in one run of the worker
RouterSessions == 1
\* how many emails a mailbox may come to hold in one run
MaxEmails == 2
\* getEmails: page = 1 and limit = 25 when the caller gives none
DefaultPage == 1
DefaultLimit == 25
\* how many attachments one email may carry
MaxAttachments == 2
\* how many emails the mailbox that is listed page by page may come to hold
MaxListed == 26
\* the pages a client asks for
MaxPage == 3

Emails == {"a@x.com", "b@x.com"}
Passwords == {"password1", "password2"}
Salts == {"s1", "s2"}
\* the salts drawn where the run is about sessions, not about hashes
OneSalt == {"s1"}
\* ensureDefaultAdmins: the fixed accounts and their fallback password
admins == <<"admin@email.230406.xyz", "admin@230406.xyz">>
AdminPassword == "admin"

VARIABLES
    users,        \* AUTH store, table users: rows [id, email, password_hash, is_admin] and
                  \*   history: flag_set, the flag updateUserAdminStatus last wrote
    sessions,     \* AUTH store, table sessions: rows [id, user_id, expires_at, created_at] and
                  \*   history: admin_at_login, the user's flag when login made the row
    now,          \* Date.now(), in days
    nextUser,     \* the next fresh user id
    nextSession,  \* the next fresh session token
    seeding,      \* the ensureDefaultAdmins calls waiting for their hash
    grants,       \* AUTH store, table user_mailboxes: rows [user_id, mailbox_id, role]
    options,      \* worker: the options EmailExplorer was built with
    bucket,       \* BUCKET: the mailbox ids whose mailboxes/<id>.json exists
    req,          \* worker: the request being handled and how far it is
    registerSeen, \* history: a register request has arrived before
    folders,      \* mailbox store, table folders: rows [id, name, is_deletable]
    emails,       \* mailbox store, table emails: rows [id, folder_id, date] and
                  \*   history: created_in, moved
    attachments,  \* mailbox store, table attachments
    nextEmail,    \* the next fresh message id
    supplied,     \* history: the attachments each send request carried
    blobs,        \* BUCKET: the keys attachments/<emailId>/<attachmentId>/<filename>,
                  \*   each kept as [email_id, id, filename]
    stores,       \* per Durable Object key: the schema its SQLite storage holds and
                  \*   how far its constructor has come
    regs,         \* worker: the register requests in flight, each with its position
    tokens,       \* BUCKET: the objects recovery-tokens/<token>.json, each kept as
                  \*   [token, userId, expiresAt] and history: changes, the password
                  \*   updates made with the token, and late, whether one came after expiresAt
    resets,       \* worker: the reset-password requests in flight, each with its position
    clock,        \* Date.now(), in hours
    DB,           \* D1 worker: env.DB, the tables it has and the rows of messages
    registered,   \* history: the <<email, password>> pairs register has accepted
    nulled,       \* history: the tokens validateSession has answered null for
    last          \* the last call: [op, arg, ret]

authVars == <<users, sessions, now, nextUser, nextSession, seeding, grants>>
histVars == <<registered, nulled>>
routerVars == <<options, bucket, req, registerSeen>>
mailVars == <<folders, emails, attachments, nextEmail, supplied, blobs>>
lateVars == <<tokens, resets, clock, DB>>
sideVars == <<stores, regs, tokens, resets, clock, DB>>
vars == <<users, sessions, now, nextUser, nextSession, seeding, grants, options, bucket, req,
          registerSeen, folders, emails, attachments, nextEmail, supplied, blobs,
          stores, regs, tokens, resets, clock, DB, registered, nulled, last>>

Null == [kind |-> "null"]
Void == [kind |-> "void"]
Raised(msg) == [kind |-> "raise", error |-> msg]
Call(op, arg, ret) == [op |-> op, arg |-> arg, ret |-> ret]

(***************************************************************************)
(* Password hashing.  PBKDF2 is taken as an injective function of          *)
(* (password, salt); the stored string base64(salt) ":" base64(bits) is    *)
(* the record of its two parts.                                            *)
(***************************************************************************)
PBKDF2(password, salt) == <<password, salt>>

hashPassword(password, salt) == [salt |-> salt, bits |-> PBKDF2(password, salt)]

verifyPassword_AnyPassword(password, hash) == hash.salt = hash.bits[2]

verifyPassword(password, hash) == PBKDF2(password, hash.salt) = hash.bits

\* The users table's UNIQUE constraint on email.
UniqueEmailFails(email) == \E u \in users : u.email = email

userByEmail(email) == CHOOSE u \in users : u.email = email
userById(id) == CHOOSE u \in users : u.id = id
sessionById(id) == CHOOSE s \in sessions : s.id = id

hasUsers == Cardinality(users) > 0

(***************************************************************************)
(* Credential operations.                                                  *)
(***************************************************************************)
register(email, password, isFirstUser, salt) ==
    IF UniqueEmailFails(email)
    THEN /\ last' = Call("register", <<email>>, Raised("UNIQUE constraint failed"))
         /\ UNCHANGED <<authVars, histVars>>
    ELSE /\ users' = users \cup {[id |-> nextUser, email |-> email,
                                  password_hash |-> hashPassword(password, salt),
                                  is_admin |-> IF isFirstUser THEN 1 ELSE 0,
                                  flag_set |-> <<>>]}
         /\ nextUser' = nextUser + 1
         /\ registered' = registered \cup {<<email, password>>}
         /\ last' = Call("register", <<email>>,
                         [kind |-> "user", id |-> nextUser, email |-> email,
                          isAdmin |-> isFirstUser])
         /\ UNCHANGED <<grants, sessions, now, nextSession, seeding, nulled>>

\* The Session object login and validateSession return.
SessionOf(s, u) ==
    [kind |-> "session", id |-> s.id, userId |-> s.user_id, email |-> u.email,
     isAdmin |-> (u.is_admin = 1), expiresAt |-> s.expires_at]

login_ExpiresAtOnce(email, password) ==
    IF ~(\E u \in users : u.email = email)
    THEN /\ last' = Call("login", <<email, password>>, Null)
         /\ UNCHANGED <<authVars, histVars>>
    ELSE LET user == userByEmail(email)
             row == [id |-> nextSession, user_id |-> user.id,
                     expires_at |-> now, created_at |-> now,
                     admin_at_login |-> (user.is_admin = 1)]
         IN IF ~verifyPassword(password, user.password_hash)
            THEN /\ last' = Call("login", <<email, password>>, Null)
                 /\ UNCHANGED <<authVars, histVars>>
            ELSE /\ nextSession <= MaxSessions
                 /\ now + SessionDays <= MaxTime
                 /\ sessions' = sessions \cup {row}
                 /\ nextSession' = nextSession + 1
                 /\ last' = Call("login", <<email, password>>, SessionOf(row, user))
                 /\ UNCHANGED <<grants, users, now, nextUser, seeding, histVars>>

login_SessionBeforeVerify(email, password) ==
    IF ~(\E u \in users : u.email = email)
    THEN /\ last' = Call("login", <<email, password>>, Null)
         /\ UNCHANGED <<authVars, histVars>>
    ELSE LET user == userByEmail(email)
             row == [id |-> nextSession, user_id |-> user.id,
                     expires_at |-> now + SessionDays, created_at |-> now,
                     admin_at_login |-> (user.is_admin = 1)]
         IN /\ nextSession <= MaxSessions
            /\ now + SessionDays <= MaxTime
            /\ sessions' = sessions \cup {row}
            /\ nextSession' = nextSession + 1
            /\ last' = Call("login", <<email, password>>,
                            IF verifyPassword(password, user.password_hash)
                            THEN SessionOf(row, user) ELSE Null)
            /\ UNCHANGED <<grants, users, now, nextUser, seeding, histVars>>

\* A session is minted only while a token is left and its whole life fits
\* the run's horizon (the bounds of the model).
login(email, password) ==
    IF ~(\E u \in users : u.email = email)
    THEN /\ last' = Call("login", <<email, password>>, Null)
         /\ UNCHANGED <<authVars, histVars>>
    ELSE LET user == userByEmail(email)
             row == [id |-> nextSession, user_id |-> user.id,
                     expires_at |-> now + SessionDays, created_at |-> now,
                     admin_at_login |-> (user.is_admin = 1)]
         IN IF ~verifyPassword(password, user.password_hash)
            THEN /\ last' = Call("login", <<email, password>>, Null)
                 /\ UNCHANGED <<authVars, histVars>>
            ELSE /\ nextSession <= MaxSessions
                 /\ now + SessionDays <= MaxTime
                 /\ sessions' = sessions \cup {row}
                 /\ nextSession' = nextSession + 1
                 /\ last' = Call("login", <<email, password>>, SessionOf(row, user))
                 /\ UNCHANGED <<grants, users, now, nextUser, seeding, histVars>>

validateSession_ExpiredAtDeadline(sessionId) ==
    IF ~(\E s \in sessions : s.id = sessionId)
    THEN /\ last' = Call("validateSession", <<sessionId>>, Null)
         /\ nulled' = nulled \cup {sessionId}
         /\ UNCHANGED <<authVars, registered>>
    ELSE LET session == sessionById(sessionId)
         IN IF session.expires_at <= now
            THEN /\ sessions' = sessions \ {session}
                 /\ last' = Call("validateSession", <<sessionId>>, Null)
                 /\ nulled' = nulled \cup {sessionId}
                 /\ UNCHANGED <<grants, users, now, nextUser, nextSession, seeding, registered>>
            ELSE /\ last' = Call("validateSession", <<sessionId>>,
                                 SessionOf(session, userById(session.user_id)))
                 /\ UNCHANGED <<authVars, histVars>>

validateSession_CachedFlag(sessionId) ==
    IF ~(\E s \in sessions : s.id = sessionId)
    THEN /\ last' = Call("validateSession", <<sessionId>>, Null)
         /\ nulled' = nulled \cup {sessionId}
         /\ UNCHANGED <<authVars, registered>>
    ELSE LET session == sessionById(sessionId)
         IN IF session.expires_at < now
            THEN /\ sessions' = sessions \ {session}
                 /\ last' = Call("validateSession", <<sessionId>>, Null)
                 /\ nulled' = nulled \cup {sessionId}
                 /\ UNCHANGED <<grants, users, now, nextUser, nextSession, seeding, registered>>
            ELSE /\ last' = Call("validateSession", <<sessionId>>,
                                 [SessionOf(session, userById(session.user_id))
                                    EXCEPT !.isAdmin = session.admin_at_login])
                 /\ UNCHANGED <<authVars, histVars>>

validateSession(sessionId) ==
    IF ~(\E s \in sessions : s.id = sessionId)
    THEN /\ last' = Call("validateSession", <<sessionId>>, Null)
         /\ nulled' = nulled \cup {sessionId}
         /\ UNCHANGED <<authVars, registered>>
    ELSE LET session == sessionById(sessionId)
         IN IF session.expires_at < now
            THEN /\ sessions' = sessions \ {session}
                 /\ last' = Call("validateSession", <<sessionId>>, Null)
                 /\ nulled' = nulled \cup {sessionId}
                 /\ UNCHANGED <<grants, users, now, nextUser, nextSession, seeding, registered>>
            ELSE IF ~(\E u \in users : u.id = session.user_id)
            THEN /\ last' = Call("validateSession", <<sessionId>>, Null)
                 /\ nulled' = nulled \cup {sessionId}
                 /\ UNCHANGED <<authVars, registered>>
            ELSE /\ last' = Call("validateSession", <<sessionId>>,
                                 SessionOf(session, userById(session.user_id)))
                 /\ UNCHANGED <<authVars, histVars>>

logout_AllSessions(sessionId) ==
    /\ sessions' = {}
    /\ last' = Call("logout", <<sessionId>>, [kind |-> "bool", value |-> TRUE])
    /\ UNCHANGED <<grants, users, now, nextUser, nextSession, seeding, histVars>>

logout(sessionId) ==
    /\ sessions' = {s \in sessions : s.id # sessionId}
    /\ last' = Call("logout", <<sessionId>>, [kind |-> "bool", value |-> TRUE])
    /\ UNCHANGED <<grants, users, now, nextUser, nextSession, seeding, histVars>>

updateUserPassword(userId, newPassword, salt) ==
    /\ users' = {IF u.id = userId
                 THEN [u EXCEPT !.password_hash = hashPassword(newPassword, salt)]
                 ELSE u : u \in users}
    /\ last' = Call("updateUserPassword", <<userId>>, Void)
    /\ UNCHANGED <<grants, sessions, now, nextUser, nextSession, seeding, histVars>>

updateUserAdminStatus(userId, isAdmin) ==
    /\ users' = {IF u.id = userId
                 THEN [u EXCEPT !.is_admin = IF isAdmin THEN 1 ELSE 0,
                                 !.flag_set = <<isAdmin>>]
                 ELSE u : u \in users}
    /\ last' = Call("updateUserAdminStatus", <<userId, isAdmin>>, Void)
    /\ UNCHANGED <<grants, sessions, now, nextUser, nextSession, seeding, histVars>>

getUsers ==
    /\ last' = Call("getUsers", <<>>,
                    [kind |-> "users",
                     rows |-> {[id |-> u.id, email |-> u.email, isAdmin |-> (u.is_admin = 1)] :
                                  u \in users}])
    /\ UNCHANGED <<authVars, histVars>>

\* The user_mailboxes table's composite key (user_id, mailbox_id).
GrantKeyFails(userId, mailboxId) ==
    \E g \in grants : g.user_id = userId /\ g.mailbox_id = mailboxId

grantMailboxAccess_LastGrantAdded(userId, mailboxId, role) ==
    /\ grants' = grants \cup {[user_id |-> userId, mailbox_id |-> mailboxId, role |-> role]}
    /\ last' = Call("grantMailboxAccess", <<userId, mailboxId, role>>, Void)
    /\ UNCHANGED <<users, sessions, now, nextUser, nextSession, seeding, histVars>>

grantMailboxAccess(userId, mailboxId, role) ==
    IF GrantKeyFails(userId, mailboxId)
    THEN /\ last' = Call("grantMailboxAccess", <<userId, mailboxId, role>>,
                         Raised("UNIQUE constraint failed"))
         /\ UNCHANGED <<authVars, histVars>>
    ELSE /\ grants' = grants \cup {[user_id |-> userId, mailbox_id |-> mailboxId,
                                     role |-> role]}
         /\ last' = Call("grantMailboxAccess", <<userId, mailboxId, role>>, Void)
         /\ UNCHANGED <<users, sessions, now, nextUser, nextSession, seeding, histVars>>

revokeMailboxAccess(userId, mailboxId) ==
    /\ grants' = {g \in grants : ~(g.user_id = userId /\ g.mailbox_id = mailboxId)}
    /\ last' = Call("revokeMailboxAccess", <<userId, mailboxId>>, Void)
    /\ UNCHANGED <<users, sessions, now, nextUser, nextSession, seeding, histVars>>

getUserMailboxes(userId) ==
    /\ last' = Call("getUserMailboxes", <<userId>>,
                    [kind |-> "mailboxes",
                     rows |-> {[mailboxId |-> g.mailbox_id, role |-> g.role] :
                                  g \in {h \in grants : h.user_id = userId}}])
    /\ UNCHANGED <<authVars, histVars>>

\* The clock moves on between two calls.
Tick ==
    /\ now + TickDays <= MaxTime
    /\ now' = now + TickDays
    /\ last' = Call("tick", <<>>, Void)
    /\ UNCHANGED <<grants, users, sessions, nextUser, nextSession, seeding, histVars>>

(***************************************************************************)
(* The credential store, called in any order.  register is called as the   *)
(* routes call it: isFirstUser is !hasUsers() (PostRegister) or false      *)
(* (PostAdminRegister).  A caller presents a token login has minted, or    *)
(* token 0, which no login ever mints.                                     *)
(***************************************************************************)
\* EmailExplorer's defaults: auth on, registration in smart mode.
defaultOptions == [enabled |-> TRUE, registerEnabled |-> "undefined"]

NoRequest ==
    [pc |-> "idle", handler |-> "none", pathname |-> <<>>, token |-> <<>>,
     mailboxId |-> "none", first |-> FALSE, trace |-> <<>>, todo |-> <<>>,
     status |-> 0, isAdmin |-> FALSE, session |-> Null]

\* The folders a mailbox store is seeded with on its first access.
SeedFolders ==
    {[id |-> "inbox", name |-> "Inbox", is_deletable |-> 0],
     [id |-> "sent", name |-> "Sent", is_deletable |-> 0],
     [id |-> "drafts", name |-> "Drafts", is_deletable |-> 0],
     [id |-> "trash", name |-> "Trash", is_deletable |-> 0]}

InitMailbox ==
    /\ folders = SeedFolders
    /\ emails = {}
    /\ attachments = {}
    /\ nextEmail = 1
    /\ supplied = <<>>
    /\ blobs = {}

\* every instance constructed: the runs below are not about initialization
InitLate ==
    /\ tokens = {}
    /\ resets = <<>>
    /\ clock = 0
    /\ DB = [tables |-> {}, messages |-> {}]

InitSide ==
    /\ stores = <<>>
    /\ regs = <<>>
    /\ InitLate

InitStore ==
    /\ InitMailbox
    /\ InitSide
    /\ users = {}
    /\ sessions = {}
    /\ now = 0
    /\ nextUser = 1
    /\ nextSession = 1
    /\ seeding = {}
    /\ grants = {}
    /\ registered = {}
    /\ nulled = {}
    /\ last = Call("init", <<>>, Void)

InitAuth ==
    /\ InitStore
    /\ options = defaultOptions
    /\ bucket = {}
    /\ req = NoRequest
    /\ registerSeen = FALSE

UserIds == 1 .. (nextUser - 1)
Tokens == 0 .. (nextSession - 1)

\* a call of the credential store: the worker and the mailboxes stay as they are
OnAuth(call) == call /\ UNCHANGED <<routerVars, mailVars, sideVars>>

NextAuth ==
    \/ OnAuth(\E e \in Emails, p \in Passwords, f \in {~hasUsers, FALSE}, s \in OneSalt :
                 register(e, p, f, s))
    \/ OnAuth(\E e \in Emails, p \in Passwords : login(e, p))
    \/ OnAuth(\E t \in Tokens : validateSession(t))
    \/ OnAuth(\E t \in Tokens : logout(t))
    \/ OnAuth(\E u \in UserIds, p \in Passwords, s \in OneSalt : updateUserPassword(u, p, s))
    \/ OnAuth(Tick)

SpecAuth == InitAuth /\ [][NextAuth]_vars

(***************************************************************************)
(* The login route's answer to the store's result (PostLogin.handle).      *)
(***************************************************************************)
PostLoginResponse(session) ==
    IF session = Null
    THEN [status |-> 401, error |-> "Invalid credentials"]
    ELSE [status |-> 200, id |-> session.id, userId |-> session.userId,
          email |-> session.email, isAdmin |-> session.isAdmin,
          expiresAt |-> session.expiresAt]

(***************************************************************************)
(* Session lifetime.                                                       *)
(***************************************************************************)
\* The row a token names, as validateSession finds it before it answers.
RowLive(t, deadlineOk(_, _)) ==
    \E s \in sessions : s.id = t /\ deadlineOk(now, s.expires_at)

NotAfter(n, e) == n <= e
Before(n, e) == n < e

\* C1 (as amended): validateSession(t) answers non-null exactly when the
\* sessions row of t exists and now <= expiresAt (the row is expired only
\* once expiresAt < now, so the session is still valid at the deadline
\* itself); a non-null answer repeats the row's user and deadline; and a
\* token that was answered null once is never answered non-null again.
C1_ValidWhileNotPastDeadline ==
    [][last'.op = "validateSession" =>
         LET t == last'.arg[1]
         IN /\ (last'.ret # Null) <=> RowLive(t, NotAfter)
            /\ last'.ret # Null =>
                 /\ t \notin nulled
                 /\ last'.ret.id = t
                 /\ last'.ret.userId = sessionById(t).user_id
                 /\ last'.ret.expiresAt = sessionById(t).expires_at
                 /\ sessions' = sessions
            /\ last'.ret = Null =>
                 /\ t \in nulled'
                 /\ ~(\E s \in sessions' : s.id = t)]_vars

\* C1, the case: a session validated on its deadline day is answered
\* non-null, and one validated after it has been answered null.
C1_Witness ==
    /\ last.op = "validateSession"
    /\ last.ret # Null
    /\ now = last.ret.expiresAt
    /\ \E t \in nulled : t >= 1

\* C1 as stated: non-null exactly while now < expiresAt.
C1_AsStated ==
    [][last'.op = "validateSession" =>
         ((last'.ret # Null) <=> RowLive(last'.arg[1], Before))]_vars

(***************************************************************************)
(* Register, then log in.                                                  *)
(***************************************************************************)
\* The one row a successful login adds.
LoginAdds(ret) ==
    /\ Cardinality(sessions' \ sessions) = 1
    /\ sessions \subseteq sessions'
    /\ \A s \in sessions' \ sessions :
         /\ s.id = ret.id
         /\ s.user_id = ret.userId
         /\ s.expires_at = ret.expiresAt

\* The password a stored hash was derived from.
PasswordOf(hash) == hash.bits[1]

\* the password of the account is still the one register stored
StillCurrent(email, password) ==
    \E u \in users : u.email = email /\ PasswordOf(u.password_hash) = password

\* C2 (as amended): for every (email, password) register accepted whose
\* password has not been replaced since (updateUserPassword), login(email,
\* password) returns a session of that user, adds exactly one sessions row
\* owned by that user, and the expiry is the login time plus 30 days.
C2_LoginAfterRegister ==
    [][(/\ last'.op = "login"
        /\ <<last'.arg[1], last'.arg[2]>> \in registered
        /\ StillCurrent(last'.arg[1], last'.arg[2]))
       => /\ last'.ret # Null
          /\ last'.ret.kind = "session"
          /\ last'.ret.email = last'.arg[1]
          /\ last'.ret.userId = userByEmail(last'.arg[1]).id
          /\ last'.ret.expiresAt = now + SessionDays
          /\ LoginAdds(last'.ret)]_vars

\* C2, the case: a registered pair has logged in and holds a session.
C2_Witness ==
    /\ last.op = "login"
    /\ last.ret # Null
    /\ <<last.arg[1], last.arg[2]>> \in registered
    /\ \E s \in sessions : s.id = last.ret.id /\ s.expires_at = now + SessionDays

\* C2 as stated: every registered pair logs in, whatever happened since.
C2_AsStated ==
    [][(/\ last'.op = "login"
        /\ <<last'.arg[1], last'.arg[2]>> \in registered)
       => /\ last'.ret # Null
          /\ last'.ret.expiresAt = now + SessionDays
          /\ LoginAdds(last'.ret)]_vars

(***************************************************************************)
(* Failed logins.                                                          *)
(***************************************************************************)
\* The credentials in force: the pair register accepted, or the password
\* updateUserPassword put in its place.
UnknownEmail(email) == \A u \in users : u.email # email
WrongPassword(email, password) ==
    /\ ~UnknownEmail(email)
    /\ PasswordOf(userByEmail(email).password_hash) # password

\* C6: login with an unknown email or with a wrong password returns null,
\* raises nothing, leaves the users and sessions tables as they were, and
\* the route answers both with the same 401 'Invalid credentials'.
C6_MismatchIsNull ==
    [][(/\ last'.op = "login"
        /\ \/ UnknownEmail(last'.arg[1])
           \/ WrongPassword(last'.arg[1], last'.arg[2]))
       => /\ last'.ret = Null
          /\ sessions' = sessions
          /\ users' = users
          /\ nextSession' = nextSession
          /\ PostLoginResponse(last'.ret) =
                [status |-> 401, error |-> "Invalid credentials"]]_vars

\* C6, the case: a login with a wrong password for an existing account has
\* been answered null while the account exists.
C6_Witness ==
    /\ last.op = "login"
    /\ last.ret = Null
    /\ WrongPassword(last.arg[1], last.arg[2])
    /\ users # {}

(***************************************************************************)
(* Logout.                                                                 *)
(***************************************************************************)
HasRow(rows, t) == \E s \in rows : s.id = t

\* the sessions table without the row of t
WithoutRow(rows, t) == {s \in rows : s.id # t}

\* C15: logout(t) returns true and raises nothing whether or not t has a
\* row; it removes the row of t and no other row, and changes no user; a
\* second logout(t) on the result changes nothing; a token without a row
\* never gets one again, and validateSession of a token without a row
\* returns null.
C15_LogoutIdempotent ==
    [][/\ last'.op = "logout" =>
             LET t == last'.arg[1]
             IN /\ last'.ret = [kind |-> "bool", value |-> TRUE]
                /\ sessions' = WithoutRow(sessions, t)
                /\ \A s \in sessions : s.id # t => s \in sessions'
                /\ ~HasRow(sessions', t)
                /\ WithoutRow(sessions', t) = sessions'
                /\ ~HasRow(sessions, t) => sessions' = sessions
                /\ users' = users
       /\ \A t \in Tokens : ~HasRow(sessions, t) => ~HasRow(sessions', t)
       /\ (last'.op = "validateSession" /\ ~HasRow(sessions, last'.arg[1])) =>
             last'.ret = Null]_vars

\* C15, the case: logout was called for a minted token whose row was
\* already gone (validateSession had answered null for it before its
\* deadline), while another session is still there.
C15_Witness ==
    /\ last.op = "logout"
    /\ last.arg[1] >= 1
    /\ last.arg[1] \in nulled
    /\ now < SessionDays
    /\ sessions # {}

(***************************************************************************)
(* Default administrators.  ensureDefaultAdmins counts the users, returns  *)
(* if there is one, and otherwise awaits the hash of the fallback password *)
(* before it inserts; other calls of the store may run during that await.  *)
(* Each insert is wrapped in try/catch, so a refused insert is skipped.    *)
(***************************************************************************)
ensureDefaultAdmins_NoCount(c) ==
    /\ c \notin seeding
    /\ seeding' = seeding \cup {c}
    /\ last' = Call("ensureDefaultAdmins.hash", <<c>>, Void)
    /\ UNCHANGED <<grants, users, sessions, now, nextUser, nextSession, histVars>>

ensureDefaultAdmins(c) ==
    /\ c \notin seeding
    /\ IF Cardinality(users) > 0
       THEN /\ last' = Call("ensureDefaultAdmins", <<c>>, Void)
            /\ UNCHANGED <<authVars, histVars>>
       ELSE /\ seeding' = seeding \cup {c}
            /\ last' = Call("ensureDefaultAdmins.hash", <<c>>, Void)
            /\ UNCHANGED <<grants, users, sessions, now, nextUser, nextSession, histVars>>

AdminRows_NotAdmin(passwordHash) ==
    {[id |-> nextUser + (i - 1), email |-> admins[i],
      password_hash |-> passwordHash, is_admin |-> 0, flag_set |-> <<>>] :
        i \in {j \in 1 .. Len(admins) : ~UniqueEmailFails(admins[j])}}

\* The rows the loop over admins inserts: one per address the UNIQUE
\* constraint lets in, all with the one hash computed before the loop.
AdminRows(passwordHash) ==
    {[id |-> nextUser + (i - 1), email |-> admins[i],
      password_hash |-> passwordHash, is_admin |-> 1, flag_set |-> <<>>] :
        i \in {j \in 1 .. Len(admins) : ~UniqueEmailFails(admins[j])}}

\* the loop without its try/catch: a refused insert ends the call
ensureDefaultAdmins_Insert_Rethrows(c, salt) ==
    /\ c \in seeding
    /\ seeding' = seeding \ {c}
    /\ IF \E i \in 1 .. Len(admins) : UniqueEmailFails(admins[i])
       THEN /\ last' = Call("ensureDefaultAdmins", <<c>>, Raised("UNIQUE constraint failed"))
            /\ UNCHANGED <<users, nextUser>>
       ELSE /\ users' = users \cup AdminRows(hashPassword(AdminPassword, salt))
            /\ nextUser' = nextUser + Len(admins)
            /\ last' = Call("ensureDefaultAdmins", <<c>>, Void)
    /\ UNCHANGED <<grants, sessions, now, nextSession, histVars>>

ensureDefaultAdmins_Insert(c, salt) ==
    /\ c \in seeding
    /\ seeding' = seeding \ {c}
    /\ users' = users \cup AdminRows(hashPassword(AdminPassword, salt))
    /\ nextUser' = nextUser + Len(admins)
    /\ last' = Call("ensureDefaultAdmins", <<c>>, Void)
    /\ UNCHANGED <<grants, sessions, now, nextSession, histVars>>

\* The credential store with its bootstrap: the addresses a visitor may
\* register include one of the default administrators'.
SeedEmails == {"a@x.com", admins[2]}
Callers == 1 .. MaxCallers

NextAdmins ==
    \/ OnAuth(\E c \in Callers : ensureDefaultAdmins(c))
    \/ OnAuth(\E c \in Callers, s \in Salts : ensureDefaultAdmins_Insert(c, s))
    \/ OnAuth(\E e \in SeedEmails, p \in Passwords, f \in {~hasUsers, FALSE}, s \in OneSalt :
                 register(e, p, f, s))
    \/ OnAuth(\E u \in UserIds, p \in Passwords, s \in OneSalt : updateUserPassword(u, p, s))
    \/ OnAuth(\E u \in UserIds : updateUserAdminStatus(u, FALSE))

SpecAdmins == InitAuth /\ [][NextAdmins]_vars

NoDuplicateUsers(rows) ==
    \A u1, u2 \in rows : (u1.email = u2.email \/ u1.id = u2.id) => u1 = u2

\* C10: a call of ensureDefaultAdmins that finds a user row returns at once
\* and leaves the users table as it was, hashes and admin flags included;
\* no call raises; whatever was called before, no two user rows share an
\* email or an id; and when a call returns, the table is not empty.
C10_EnsureDefaultAdminsIdempotent ==
    [][/\ (/\ last'.op \in {"ensureDefaultAdmins", "ensureDefaultAdmins.hash"}
           /\ last'.arg[1] \notin seeding
           /\ users # {})
          => /\ last'.op = "ensureDefaultAdmins"
             /\ users' = users
             /\ seeding' = seeding
       /\ last'.op = "ensureDefaultAdmins" =>
             /\ last'.ret = Void
             /\ users' # {}
             /\ NoDuplicateUsers(users')]_vars

\* C10, the case: the default administrators were seeded, one of them has
\* since changed password, and a later call has returned without a change.
C10_Witness ==
    /\ last.op = "ensureDefaultAdmins"
    /\ seeding = {}
    /\ \A i \in 1 .. Len(admins) : \E u \in users : u.email = admins[i]
    /\ \E u \in users : u.email = admins[1] /\ PasswordOf(u.password_hash) # AdminPassword

(***************************************************************************)
(* Mailbox access grants.                                                  *)
(***************************************************************************)
GrantUsers == {1, 2}
GrantMailboxes == {"a@x.com", "b@x.com"}
GrantRoles == {"read", "write"}

NextGrants ==
    \/ OnAuth(\E u \in GrantUsers, mb \in GrantMailboxes, r \in GrantRoles :
                 grantMailboxAccess(u, mb, r))
    \/ OnAuth(\E u \in GrantUsers, mb \in GrantMailboxes : revokeMailboxAccess(u, mb))
    \/ OnAuth(\E u \in GrantUsers : getUserMailboxes(u))

SpecGrants == InitAuth /\ [][NextGrants]_vars

SamePair(g, userId, mailboxId) == g.user_id = userId /\ g.mailbox_id = mailboxId

OneRolePerPair ==
    \A g, h \in grants : SamePair(g, h.user_id, h.mailbox_id) => g.role = h.role

RevokeRemovesThePair ==
    last'.op = "revokeMailboxAccess" =>
        /\ ~(\E g \in grants' : SamePair(g, last'.arg[1], last'.arg[2]))
        /\ \A g \in grants : ~SamePair(g, last'.arg[1], last'.arg[2]) => g \in grants'
        /\ grants' \subseteq grants

ListedAfterRevoke ==
    (last.op = "revokeMailboxAccess" /\ last'.op = "getUserMailboxes"
       /\ last'.arg[1] = last.arg[1]) =>
        /\ ~(\E row \in last'.ret.rows : row.mailboxId = last.arg[2])
        /\ last'.ret.rows = {[mailboxId |-> g.mailbox_id, role |-> g.role] :
                                g \in {h \in grants : h.user_id = last'.arg[1]}}

\* C20: the credential store never holds two roles for one (user_id,
\* mailbox_id) pair, whatever grantMailboxAccess and revokeMailboxAccess
\* calls were made; revokeMailboxAccess(u, m) leaves no grant of (u, m), so
\* that the list getUserMailboxes(u) then returns has no entry for m, and it
\* leaves the grant of every other pair as it was.
C20_OneRolePerPair ==
    /\ []OneRolePerPair
    /\ [][RevokeRemovesThePair /\ ListedAfterRevoke]_vars

\* C20, the case: the grant of one pair has been revoked while the same user
\* keeps another mailbox and another user keeps the same mailbox.
C20_Witness ==
    /\ last.op = "revokeMailboxAccess"
    /\ \E g \in grants : g.user_id = last.arg[1] /\ g.mailbox_id # last.arg[2]
    /\ \E g \in grants : g.user_id # last.arg[1] /\ g.mailbox_id = last.arg[2]
    /\ ~(\E g \in grants : SamePair(g, last.arg[1], last.arg[2]))

(***************************************************************************)
(* Accounts.  The addresses a client types may differ in letter case only; *)
(* register, login and the routes in front of them pass an address on as   *)
(* it was typed.                                                           *)
(***************************************************************************)
CaseEmails == {"a@x.com", "A@x.com"}
OnePassword == {"password1"}

NextUsers ==
    \/ OnAuth(\E e \in CaseEmails, p \in OnePassword, f \in {~hasUsers, FALSE}, s \in OneSalt :
                 register(e, p, f, s))
    \/ OnAuth(\E e \in CaseEmails, p \in Passwords : login(e, p))
    \/ OnAuth(\E t \in Tokens : validateSession(t))
    \/ OnAuth(\E u \in UserIds, b \in BOOLEAN : updateUserAdminStatus(u, b))
    \/ OnAuth(Tick)

SpecUsers == InitAuth /\ [][NextUsers]_vars

\* case normalization of an address, on the addresses drawn above
Normalized(email) == IF email = "A@x.com" THEN "a@x.com" ELSE email

NoTwoAlike == \A u1, u2 \in users : Normalized(u1.email) = Normalized(u2.email) => u1 = u2

\* every stored address is its own normal form
StoredNormalized == \A u \in users : u.email = Normalized(u.email)

DuplicateRefused ==
    (/\ last'.op = "register"
     /\ \E u \in users : Normalized(u.email) = Normalized(last'.arg[1]))
    => /\ last'.ret.kind = "raise"
       /\ users' = users

\* C12 as stated: the stored emails are case-normalized, no two user rows
\* have emails that are equal after case normalization, and register
\* with an email already present, also one that
\* differs in letter case only, fails as a duplicate and leaves the users
\* table as it was.
C12_EmailUniqueNormalized ==
    [](StoredNormalized /\ NoTwoAlike) /\ [][DuplicateRefused]_vars

\* C13: a validateSession that answers non-null reports the admin flag as
\* the users row holds it at that moment: the value updateUserAdminStatus
\* last wrote for that user, if it wrote one, whatever the flag was when
\* login made the session; and updateUserAdminStatus leaves the sessions as
\* they were.
C13_AdminFlagReadLive ==
    [][/\ (last'.op = "validateSession" /\ last'.ret # Null) =>
             LET u == userById(last'.ret.userId)
             IN /\ last'.ret.isAdmin = (u.is_admin = 1)
                /\ u.flag_set # <<>> => last'.ret.isAdmin = u.flag_set[1]
       /\ last'.op = "updateUserAdminStatus" =>
             /\ sessions' = sessions
             /\ \A u \in users' : u.id = last'.arg[1] =>
                   /\ u.flag_set = <<last'.arg[2]>>
                   /\ (u.is_admin = 1) = last'.arg[2]]_vars

\* C13, the case: a session made while its user was an administrator has
\* been validated after the flag was taken away, and reports isAdmin = false.
C13_Witness ==
    /\ last.op = "validateSession"
    /\ last.ret # Null
    /\ ~last.ret.isAdmin
    /\ sessionById(last.ret.id).admin_at_login
    /\ userById(last.ret.userId).flag_set = <<FALSE>>

(***************************************************************************)
(* The worker's fetch entry point.  A pathname is the sequence of its      *)
(* segments, and startsWith is taken segment by segment.  One request is   *)
(* followed from its arrival through each await of fetch and of its        *)
(* handler; between two awaits other requests may create or delete a       *)
(* mailbox's configuration and the clock may move.  Mailbox ids are        *)
(* addresses; the reserved key AUTH names no mailbox.  What the mailbox    *)
(* store holds is left open here: a store call may answer that the item    *)
(* does not exist.                                                         *)
(***************************************************************************)
Mailboxes == {"m1@x.com"}

\* the handlers of the mailbox-scoped routes
MailboxRoutes ==
    {"GetEmails", "PostEmail", "GetEmail", "PutEmail", "DeleteEmail", "PostMoveEmail",
     "PostReplyEmail", "PostForwardEmail", "GetFolders", "PostFolder", "PutFolder",
     "DeleteFolder", "GetContacts", "PostContact", "PutContact", "DeleteContact",
     "GetSearch", "GetAttachment"}
Handlers == MailboxRoutes \cup {"PostRegister", "PostLogin", "GetMe", "Assets"}

\* the handlers of the admin-only routes
AdminRoutes ==
    {"PostAdminRegister", "GetUsers", "PutUser", "PostGrantAccess", "PostRevokeAccess"}

\* The route table: the pathname a handler is mounted on.
RouteTail(h) ==
    CASE h \in {"GetEmails", "PostEmail"} -> <<"emails">>
      [] h \in {"GetEmail", "PutEmail", "DeleteEmail"} -> <<"emails", "id">>
      [] h = "PostMoveEmail" -> <<"emails", "id", "move">>
      [] h = "PostReplyEmail" -> <<"emails", "id", "reply">>
      [] h = "PostForwardEmail" -> <<"emails", "id", "forward">>
      [] h \in {"GetFolders", "PostFolder"} -> <<"folders">>
      [] h \in {"PutFolder", "DeleteFolder"} -> <<"folders", "id">>
      [] h \in {"GetContacts", "PostContact"} -> <<"contacts">>
      [] h \in {"PutContact", "DeleteContact"} -> <<"contacts", "id">>
      [] h = "GetSearch" -> <<"search">>
      [] h = "GetAttachment" -> <<"emails", "id", "attachments", "id">>

PathOf(h, m) ==
    CASE h = "PostRegister" -> <<"api", "v1", "auth", "register">>
      [] h = "PostLogin" -> <<"api", "v1", "auth", "login">>
      [] h = "GetMe" -> <<"api", "v1", "auth", "me">>
      [] h = "Assets" -> <<"index.html">>
      [] h = "PostAdminRegister" -> <<"api", "v1", "auth", "admin", "register">>
      [] h = "GetUsers" -> <<"api", "v1", "auth", "admin", "users">>
      [] h = "PutUser" -> <<"api", "v1", "auth", "admin", "users", "userId">>
      [] h = "PostGrantAccess" -> <<"api", "v1", "auth", "admin", "grant-access">>
      [] h = "PostRevokeAccess" -> <<"api", "v1", "auth", "admin", "revoke-access">>
      [] h \in MailboxRoutes -> <<"api", "v1", "mailboxes", m>> \o RouteTail(h)

\* The mailbox store's methods a handler calls once the mailbox exists.
StoreOps(h) ==
    CASE h = "GetEmails" -> <<"getEmails">>
      [] h = "PostEmail" -> <<"createEmail">>
      [] h = "GetEmail" -> <<"getEmail">>
      [] h = "PutEmail" -> <<"updateEmail">>
      [] h = "DeleteEmail" -> <<"deleteEmail">>
      [] h = "PostMoveEmail" -> <<"moveEmail">>
      [] h \in {"PostReplyEmail", "PostForwardEmail"} -> <<"getEmail", "createEmail">>
      [] h = "GetFolders" -> <<"getFolders">>
      [] h = "PostFolder" -> <<"createFolder">>
      [] h = "PutFolder" -> <<"updateFolder">>
      [] h = "DeleteFolder" -> <<"deleteFolder">>
      [] h = "GetContacts" -> <<"getContacts">>
      [] h = "PostContact" -> <<"createContact">>
      [] h = "PutContact" -> <<"updateContact">>
      [] h = "DeleteContact" -> <<"deleteContact">>
      [] h = "GetSearch" -> <<"searchEmails">>
      [] h = "GetAttachment" -> <<"getAttachment">>

startsWith(pathname, route) ==
    /\ Len(route) <= Len(pathname)
    /\ \A i \in 1 .. Len(route) : pathname[i] = route[i]

publicRoutes ==
    {<<"api", "v1", "auth", "register">>, <<"api", "v1", "auth", "login">>,
     <<"api", "v1", "auth", "forgot-password">>, <<"api", "v1", "auth", "reset-password">>,
     <<"api", "v1", "settings">>, <<"api", "docs">>, <<"api", "openapi.json">>}

isPublicRoute(pathname) == \E route \in publicRoutes : startsWith(pathname, route)

authRoutes ==
    {<<"api", "v1", "auth", "me">>, <<"api", "v1", "auth", "logout">>,
     <<"api", "v1", "auth", "admin">>}

requiresSession(pathname) == \E route \in authRoutes : startsWith(pathname, route)

isApiRoute(pathname) == startsWith(pathname, <<"api">>)

needsAuth(pathname) ==
    \/ isApiRoute(pathname) /\ (options.enabled # FALSE /\ ~isPublicRoute(pathname))
    \/ requiresSession(pathname)

\* A response leaves the worker.
Respond(status, events) ==
    [req EXCEPT !.pc = "done", !.status = status, !.trace = @ \o events, !.todo = <<>>]

\* A request arrives: its token is absent (<<>>), unknown (0) or one login minted.
Arrive(h, m, token) ==
    /\ req.pc \in {"idle", "done"}
    /\ req' = [NoRequest EXCEPT !.pc = "bootstrap", !.handler = h,
                                !.pathname = PathOf(h, m), !.token = token,
                                !.mailboxId = IF h \in MailboxRoutes THEN m ELSE "none",
                                !.first = (h = "PostRegister" /\ ~registerSeen)]
    /\ registerSeen' = (registerSeen \/ h = "PostRegister")
    /\ UNCHANGED <<authVars, histVars, last, options, bucket>>

\* fetch: await bootstrapDefaultAdmins(env), up to the hash's await.
bootstrapDefaultAdmins ==
    /\ req.pc = "bootstrap"
    /\ ensureDefaultAdmins(1)
    /\ req' = [req EXCEPT !.pc = IF 1 \in seeding' THEN "seeding" ELSE "fetch",
                          !.trace = Append(@, "AUTH.ensureDefaultAdmins")]
    /\ UNCHANGED <<options, bucket, registerSeen>>

bootstrapDefaultAdmins_Insert ==
    /\ req.pc = "seeding"
    /\ \E s \in OneSalt : ensureDefaultAdmins_Insert(1, s)
    /\ req' = [req EXCEPT !.pc = "fetch"]
    /\ UNCHANGED <<options, bucket, registerSeen>>

\* fetch, after the bootstrap: static assets, or the session check and the
\* dispatch to the handler.
fetch ==
    /\ req.pc = "fetch"
    /\ IF ~isApiRoute(req.pathname)
       THEN /\ req' = Respond(200, <<"ASSETS.fetch">>)
            /\ UNCHANGED <<authVars, histVars, last>>
       ELSE IF ~needsAuth(req.pathname)
       THEN /\ req' = [req EXCEPT !.pc = "handle"]
            /\ UNCHANGED <<authVars, histVars, last>>
       ELSE IF req.token = <<>>
       THEN /\ req' = Respond(401, <<>>)
            /\ UNCHANGED <<authVars, histVars, last>>
       ELSE /\ validateSession(req.token[1])
            /\ req' = IF last'.ret = Null
                      THEN Respond(401, <<"AUTH.validateSession">>)
                      ELSE [req EXCEPT !.pc = "handle", !.session = last'.ret,
                                       !.trace = Append(@, "AUTH.validateSession")]
    /\ UNCHANGED <<options, bucket, registerSeen>>

\* PostRegister.handle
PostRegister(email, password, salt) ==
    /\ req.pc = "handle"
    /\ req.handler = "PostRegister"
    /\ IF options.registerEnabled = "false"
       THEN /\ req' = Respond(403, <<>>)
            /\ UNCHANGED <<authVars, histVars, last>>
       ELSE IF options.registerEnabled = "undefined" /\ hasUsers
       THEN /\ req' = Respond(403, <<"AUTH.hasUsers">>)
            /\ UNCHANGED <<authVars, histVars, last>>
       ELSE /\ register(email, password, ~hasUsers, salt)
            /\ req' = [Respond(IF last'.ret.kind = "raise" THEN 400 ELSE 201,
                               (IF options.registerEnabled = "undefined"
                                THEN <<"AUTH.hasUsers">> ELSE <<>>)
                               \o <<"AUTH.hasUsers", "AUTH.register">>)
                       EXCEPT !.isAdmin = (last'.ret.kind = "user" /\ last'.ret.isAdmin)]
    /\ UNCHANGED <<options, bucket, registerSeen>>

\* PostLogin.handle
PostLogin(email, password) ==
    /\ req.pc = "handle"
    /\ req.handler = "PostLogin"
    /\ login(email, password)
    /\ nextSession' <= RouterSessions + 1
    /\ req' = Respond(PostLoginResponse(last'.ret).status, <<"AUTH.login">>)
    /\ UNCHANGED <<options, bucket, registerSeen>>

\* GetMe.handle: the session fetch put in the context, or 401 without one.
GetMe ==
    /\ req.pc = "handle"
    /\ req.handler = "GetMe"
    /\ req' = Respond(IF "AUTH.validateSession" \in {req.trace[i] : i \in 1 .. Len(req.trace)}
                      THEN 200 ELSE 401, <<>>)
    /\ UNCHANGED <<authVars, histVars, last, options, bucket, registerSeen>>

\* Every mailbox-scoped handler begins with BUCKET.head(`mailboxes/${mailboxId}.json`).
MailboxHead_Skipped ==
    /\ req.pc = "handle"
    /\ req.handler \in MailboxRoutes
    /\ req' = [req EXCEPT !.pc = "store", !.todo = StoreOps(req.handler),
                          !.trace = Append(@, IF req.mailboxId \in bucket
                                              THEN "BUCKET.head.found"
                                              ELSE "BUCKET.head.null")]
    /\ UNCHANGED <<authVars, histVars, last, options, bucket, registerSeen>>

MailboxHead ==
    /\ req.pc = "handle"
    /\ req.handler \in MailboxRoutes
    /\ req' = IF req.mailboxId \in bucket
              THEN [req EXCEPT !.pc = "store", !.todo = StoreOps(req.handler),
                               !.trace = Append(@, "BUCKET.head.found")]
              ELSE Respond(404, <<"BUCKET.head.null">>)
    /\ UNCHANGED <<authVars, histVars, last, options, bucket, registerSeen>>

\* The handler's next call of the mailbox store; found = FALSE is the answer
\* "no such item", on which the handler gives up.
MailboxCall(found) ==
    /\ req.pc = "store"
    /\ LET event == <<"MAILBOX." \o Head(req.todo)>>
       IN req' = IF ~found
                 THEN Respond(404, event)
                 ELSE IF Len(req.todo) = 1
                 THEN Respond(200, event)
                 ELSE [req EXCEPT !.todo = Tail(@), !.trace = @ \o event]
    /\ UNCHANGED <<authVars, histVars, last, options, bucket, registerSeen>>

\* Other requests: a mailbox is created (PostMailbox) or deleted (DeleteMailbox).
PostMailbox(m) ==
    /\ m \notin bucket
    /\ bucket' = bucket \cup {m}
    /\ UNCHANGED <<authVars, histVars, last, options, req, registerSeen>>

DeleteMailbox(m) ==
    /\ m \in bucket
    /\ bucket' = bucket \ {m}
    /\ UNCHANGED <<authVars, histVars, last, options, req, registerSeen>>

\* The deployments: the defaults, auth switched off, registration open, closed.
Deployments ==
    {defaultOptions, [enabled |-> FALSE, registerEnabled |-> "undefined"],
     [enabled |-> TRUE, registerEnabled |-> "true"],
     [enabled |-> TRUE, registerEnabled |-> "false"]}

InitRouter ==
    /\ InitStore
    /\ options \in Deployments
    /\ bucket = {}
    /\ req = NoRequest
    /\ registerSeen = FALSE

Presented == {<<>>} \cup {<<t>> : t \in Tokens}
\* the visitor's account, and the credentials login is tried with
Visitor == <<"a@x.com", "password1">>
Credentials == {Visitor, <<admins[1], AdminPassword>>, <<admins[1], "password1">>}

\* The clock moves past the deadline of every session minted so far.
TickPastExpiry ==
    /\ now + SessionDays + TickDays <= MaxTime
    /\ now' = now + SessionDays + TickDays
    /\ UNCHANGED <<grants, users, sessions, nextUser, nextSession, seeding, histVars, last>>

\* a step of the worker: the mailbox stores' tables stay as they are
OnWorker(step) == step /\ UNCHANGED <<mailVars, sideVars>>

NextRouter ==
    \/ OnWorker(\E h \in Handlers, m \in Mailboxes, t \in Presented : Arrive(h, m, t))
    \/ OnWorker(bootstrapDefaultAdmins)
    \/ OnWorker(bootstrapDefaultAdmins_Insert)
    \/ OnWorker(fetch)
    \/ OnWorker(\E s \in OneSalt : PostRegister(Visitor[1], Visitor[2], s))
    \/ OnWorker(\E c \in Credentials : PostLogin(c[1], c[2]))
    \/ OnWorker(GetMe)
    \/ OnWorker(MailboxHead)
    \/ OnWorker(\E found \in BOOLEAN : MailboxCall(found))
    \/ OnWorker(\E m \in Mailboxes : PostMailbox(m))
    \/ OnWorker(\E m \in Mailboxes : DeleteMailbox(m))
    \/ OnWorker(TickPastExpiry /\ UNCHANGED routerVars)

SpecRouter == InitRouter /\ [][NextRouter]_vars

(***************************************************************************)
(* What a request has called so far.                                       *)
(***************************************************************************)
Events == {req.trace[i] : i \in 1 .. Len(req.trace)}
AuthStoreCalls ==
    {"AUTH.ensureDefaultAdmins", "AUTH.validateSession", "AUTH.hasUsers",
     "AUTH.register", "AUTH.login"}
MailboxStoreCalls ==
    {"MAILBOX." \o op : op \in UNION {{StoreOps(h)[i] : i \in 1 .. Len(StoreOps(h))} :
                                          h \in MailboxRoutes}}
\* the store calls a request makes apart from the validation of its session
StoreCallsBefore(i) ==
    {j \in 1 .. (i - 1) : req.trace[j] \in (AuthStoreCalls \cup MailboxStoreCalls)
                                            \ {"AUTH.validateSession"}}

\* C3 as stated: on a fresh deployment with the default options the first
\* register request is answered 201 with isAdmin = true, and every later
\* register request is answered 403.
C3_FirstRegisterIsAdmin ==
    (/\ options = defaultOptions
     /\ req.pc = "done"
     /\ req.handler = "PostRegister")
    => IF req.first
       THEN req.status = 201 /\ req.isAdmin
       ELSE req.status = 403

\* C4 as stated: with auth enabled, a request to a protected /api/ route has
\* called no store operation before its session was validated, is answered
\* by its handler only after a successful validation, and a request answered
\* 401 has called no store operation besides the validation itself.
C4_SessionBeforeStore ==
    (/\ options.enabled
     /\ req.pc # "idle"
     /\ isApiRoute(req.pathname)
     /\ ~isPublicRoute(req.pathname))
    => /\ \A i \in 1 .. Len(req.trace) :
            req.trace[i] = "AUTH.validateSession" => StoreCallsBefore(i) = {}
       /\ \A i \in 1 .. Len(req.trace) :
            req.trace[i] \in MailboxStoreCalls =>
               \E j \in 1 .. (i - 1) : req.trace[j] = "AUTH.validateSession"
       /\ (req.pc = "done" /\ req.status = 401) =>
            Events \cap (AuthStoreCalls \cup MailboxStoreCalls) \subseteq
                {"AUTH.validateSession"}

\* C5: a request to a mailbox-scoped route calls the mailbox store only
\* after BUCKET.head has found mailboxes/<mailboxId>.json, and when the head
\* finds nothing the answer is 404 and the mailbox store has not been
\* called.
C5_HeadBeforeMailboxStore ==
    req.handler \in MailboxRoutes =>
       /\ \A i \in 1 .. Len(req.trace) :
            req.trace[i] \in MailboxStoreCalls =>
               \E j \in 1 .. (i - 1) : req.trace[j] = "BUCKET.head.found"
       /\ "BUCKET.head.null" \in Events =>
            /\ req.pc = "done"
            /\ req.status = 404
            /\ Events \cap MailboxStoreCalls = {}
       /\ req.pc = "store" => "BUCKET.head.found" \in Events

\* C5, the case: a request with a valid session for a mailbox whose
\* configuration does not exist has been answered 404.
C5_Witness ==
    /\ req.handler \in MailboxRoutes
    /\ req.pc = "done"
    /\ req.status = 404
    /\ req.mailboxId \notin bucket
    /\ "BUCKET.head.null" \in Events
    /\ "AUTH.validateSession" \in Events

(***************************************************************************)
(* The default administrators, as the worker seeds them.                   *)
(***************************************************************************)
\* the request is past fetch's await of bootstrapDefaultAdmins
Bootstrapped == req.pc \in {"fetch", "handle", "store", "done"}

DefaultAdmins == {admins[i] : i \in 1 .. Len(admins)}

\* C11: once a request to a fresh deployment is past the bootstrap, each
\* default administrator has a users row with is_admin = 1 whose hash
\* verifies the password 'admin', the two rows are distinct, and a login
\* with a default administrator's email and 'admin' is answered 200 with a
\* session of that account with isAdmin = true.
C11_DefaultAdminsSeeded ==
    /\ Bootstrapped =>
          /\ \A e \in DefaultAdmins :
                \E u \in users : /\ u.email = e
                                 /\ u.is_admin = 1
                                 /\ verifyPassword(AdminPassword, u.password_hash)
          /\ NoDuplicateUsers(users)
    /\ (/\ last.op = "login"
        /\ last.arg[1] \in DefaultAdmins
        /\ last.arg[2] = AdminPassword)
       => /\ last.ret # Null
          /\ last.ret.email = last.arg[1]
          /\ last.ret.isAdmin
          /\ PostLoginResponse(last.ret).status = 200

\* C11, the case: the first request a fresh deployment received was a login
\* as a default administrator with 'admin', and it was answered 200 with
\* isAdmin = true.
C11_Witness ==
    /\ req.pc = "done"
    /\ req.handler = "PostLogin"
    /\ req.status = 200
    /\ last.op = "login"
    /\ last.arg = <<admins[1], AdminPassword>>
    /\ last.ret # Null
    /\ last.ret.isAdmin
    /\ Cardinality(users) = Len(admins)
    /\ Cardinality(sessions) = 1

(***************************************************************************)
(* The admin-only routes.  Each handler reads the session fetch put in the *)
(* context, answers 401 without one and 403 when it is not an              *)
(* administrator's, and only then calls the credential store.  PutUser     *)
(* makes up to two calls, one per field its body carries.                  *)
(***************************************************************************)
\* The bodies an administration client sends; an absent field is <<>>.
AdminBodies ==
    {[email |-> "b@x.com", password |-> <<"password2">>, isAdmin |-> <<FALSE>>,
      userId |-> 1, mailboxId |-> "m1@x.com", role |-> "read"],
     [email |-> "b@x.com", password |-> <<>>, isAdmin |-> <<TRUE>>,
      userId |-> 3, mailboxId |-> "m1@x.com", role |-> "write"],
     [email |-> "b@x.com", password |-> <<>>, isAdmin |-> <<>>,
      userId |-> 3, mailboxId |-> "m1@x.com", role |-> "read"]}

\* The store call a handler makes once the session is an administrator's.
AdminStoreCall(h, body) ==
    CASE h = "PostAdminRegister" ->
            /\ body.password # <<>>
            /\ \E salt \in OneSalt : register(body.email, body.password[1], FALSE, salt)
      [] h = "GetUsers" -> getUsers
      [] h = "PutUser" ->
            IF body.password # <<>>
            THEN \E salt \in OneSalt : updateUserPassword(body.userId, body.password[1], salt)
            ELSE updateUserAdminStatus(body.userId, body.isAdmin[1])
      [] h = "PostGrantAccess" -> grantMailboxAccess(body.userId, body.mailboxId, body.role)
      [] h = "PostRevokeAccess" -> revokeMailboxAccess(body.userId, body.mailboxId)

\* The handler's answer after its store call.
AdminAnswer(h, ret) ==
    CASE h = "PostAdminRegister" -> IF ret.kind = "raise" THEN 400 ELSE 201
      [] h \in {"GetUsers", "PutUser", "PostRevokeAccess"} -> 200
      [] h = "PostGrantAccess" -> IF ret.kind = "raise" THEN 500 ELSE 200

AdminHandle_NoFlagCheck(body) ==
    /\ req.pc = "handle"
    /\ req.handler \in AdminRoutes
    /\ IF req.session = Null
       THEN /\ req' = Respond(401, <<>>)
            /\ UNCHANGED <<authVars, histVars, last>>
       ELSE IF req.handler = "PutUser" /\ body.password = <<>> /\ body.isAdmin = <<>>
       THEN /\ req' = Respond(200, <<>>)
            /\ UNCHANGED <<authVars, histVars, last>>
       ELSE /\ AdminStoreCall(req.handler, body)
            /\ req' = IF req.handler = "PutUser" /\ body.password # <<>> /\ body.isAdmin # <<>>
                      THEN [req EXCEPT !.pc = "putUser", !.todo = <<body>>,
                                       !.trace = Append(@, "AUTH." \o last'.op)]
                      ELSE Respond(AdminAnswer(req.handler, last'.ret), <<"AUTH." \o last'.op>>)
    /\ UNCHANGED <<options, bucket, registerSeen>>

AdminHandle(body) ==
    /\ req.pc = "handle"
    /\ req.handler \in AdminRoutes
    /\ IF req.session = Null
       THEN /\ req' = Respond(401, <<>>)
            /\ UNCHANGED <<authVars, histVars, last>>
       ELSE IF ~req.session.isAdmin
       THEN /\ req' = Respond(403, <<>>)
            /\ UNCHANGED <<authVars, histVars, last>>
       ELSE IF req.handler = "PutUser" /\ body.password = <<>> /\ body.isAdmin = <<>>
       THEN /\ req' = Respond(200, <<>>)
            /\ UNCHANGED <<authVars, histVars, last>>
       ELSE /\ AdminStoreCall(req.handler, body)
            /\ req' = IF req.handler = "PutUser" /\ body.password # <<>> /\ body.isAdmin # <<>>
                      THEN [req EXCEPT !.pc = "putUser", !.todo = <<body>>,
                                       !.trace = Append(@, "AUTH." \o last'.op)]
                      ELSE Respond(AdminAnswer(req.handler, last'.ret), <<"AUTH." \o last'.op>>)
    /\ UNCHANGED <<options, bucket, registerSeen>>

\* PutUser.handle, its second call: the body carried isAdmin as well.
PutUserAdminStatus ==
    /\ req.pc = "putUser"
    /\ updateUserAdminStatus(req.todo[1].userId, req.todo[1].isAdmin[1])
    /\ req' = Respond(200, <<"AUTH.updateUserAdminStatus">>)
    /\ UNCHANGED <<options, bucket, registerSeen>>

NextAdminRoutes ==
    \/ OnWorker(\E h \in AdminRoutes \cup {"PostRegister", "PostLogin"}, m \in Mailboxes,
                    t \in Presented : Arrive(h, m, t))
    \/ OnWorker(bootstrapDefaultAdmins)
    \/ OnWorker(bootstrapDefaultAdmins_Insert)
    \/ OnWorker(fetch)
    \/ OnWorker(\E s \in OneSalt : PostRegister(Visitor[1], Visitor[2], s))
    \/ OnWorker(\E c \in {Visitor, <<admins[1], AdminPassword>>} : PostLogin(c[1], c[2]))
    \/ OnWorker(\E body \in AdminBodies : AdminHandle(body))
    \/ OnWorker(PutUserAdminStatus)
    \/ OnWorker(TickPastExpiry /\ UNCHANGED routerVars)

SpecAdminRoutes == InitRouter /\ [][NextAdminRoutes]_vars

AdminStoreEvents ==
    {"AUTH.register", "AUTH.getUsers", "AUTH.updateUserPassword",
     "AUTH.updateUserAdminStatus", "AUTH.grantMailboxAccess", "AUTH.revokeMailboxAccess"}

\* the request's validated session is a non-administrator's
NonAdminSession == req.session # Null /\ ~req.session.isAdmin

AdminOnlyAfterFlag ==
    req.handler \in AdminRoutes =>
       /\ (Events \cap AdminStoreEvents # {} \/ req.pc = "putUser") =>
             /\ req.session # Null
             /\ req.session.isAdmin
       /\ (req.pc = "done" /\ NonAdminSession) =>
             /\ req.status = 403
             /\ Events \cap AdminStoreEvents = {}

\* the request's token names a live session of a user who is no administrator
TokenOfNonAdmin ==
    /\ req.token # <<>>
    /\ \E s \in sessions : /\ s.id = req.token[1]
                          /\ now <= s.expires_at
                          /\ \E u \in users : u.id = s.user_id /\ u.is_admin = 0

\* a step of the request under way, from its arrival to its answer
RequestStep == req.pc \notin {"idle", "done"} /\ req' # req

NonAdminChangesNothing ==
    (/\ req.handler \in AdminRoutes
     /\ RequestStep
     /\ TokenOfNonAdmin \/ (req.pc = "handle" /\ NonAdminSession))
    => /\ users' = users
       /\ sessions' = sessions
       /\ grants' = grants
       /\ req.pc = "handle" => req'.pc = "done" /\ req'.status = 403

\* C14: a request to an admin-only route calls the route's credential-store
\* operation only when the session fetch validated for it has isAdmin =
\* true; with a valid session of a non-administrator it is answered 403,
\* and none of its steps changes the users, the sessions or the grants.
C14_AdminOnly == []AdminOnlyAfterFlag /\ [][NonAdminChangesNothing]_vars

\* C14, the case: a request to an admin-only route with the valid session of
\* a non-administrator has been answered 403, while an administrator exists.
C14_Witness ==
    /\ req.handler \in AdminRoutes
    /\ req.pc = "done"
    /\ req.status = 403
    /\ NonAdminSession
    /\ "AUTH.validateSession" \in Events
    /\ \E u \in users : u.is_admin = 1

(***************************************************************************)
(* The mailbox store.  An email row keeps its id, folder_id and date; the  *)
(* date is the order of creation, so no two emails share one.  The columns *)
(* no operation below reads (subject, sender, body, ...) are left out.     *)
(***************************************************************************)
Bool(b) == [kind |-> "bool", value |-> b]

\* slugify, on the names drawn below
slugify(text) ==
    CASE text = "Work" -> "work"
      [] text = "work" -> "work"
      [] text = "Inbox" -> "inbox"
      [] text = "inbox" -> "inbox"

\* The folders table's PRIMARY KEY on id and UNIQUE constraint on name.
UniqueFolderFails(id, name) == \E f \in folders : f.id = id \/ f.name = name

createFolder_Rethrows(id, name) ==
    /\ IF UniqueFolderFails(id, name)
       THEN /\ last' = Call("createFolder", <<id, name>>, Raised("UNIQUE constraint failed"))
            /\ UNCHANGED folders
       ELSE /\ folders' = folders \cup {[id |-> id, name |-> name, is_deletable |-> 1]}
            /\ last' = Call("createFolder", <<id, name>>,
                            [kind |-> "folder", id |-> id, name |-> name, unreadCount |-> 0])
    /\ UNCHANGED <<emails, attachments, nextEmail, supplied, blobs>>

createFolder(id, name) ==
    /\ IF UniqueFolderFails(id, name)
       THEN /\ last' = Call("createFolder", <<id, name>>, Null)
            /\ UNCHANGED folders
       ELSE /\ folders' = folders \cup {[id |-> id, name |-> name, is_deletable |-> 1]}
            /\ last' = Call("createFolder", <<id, name>>,
                            [kind |-> "folder", id |-> id, name |-> name, unreadCount |-> 0])
    /\ UNCHANGED <<emails, attachments, nextEmail, supplied, blobs>>

updateFolder(id, name) ==
    /\ IF \E f \in folders : f.id # id /\ f.name = name /\ (\E g \in folders : g.id = id)
       THEN /\ last' = Call("updateFolder", <<id, name>>, Raised("UNIQUE constraint failed"))
            /\ UNCHANGED folders
       ELSE /\ folders' = {IF f.id = id THEN [f EXCEPT !.name = name] ELSE f : f \in folders}
            /\ last' = Call("updateFolder", <<id, name>>,
                            IF \E f \in folders : f.id = id
                            THEN [kind |-> "folder", id |-> id, name |-> name]
                            ELSE Null)
    /\ UNCHANGED <<emails, attachments, nextEmail, supplied, blobs>>

\* emails.folder_id is a foreign key to folders(id).  A DELETE of a folders
\* row that emails refer to either takes those emails with it (ON DELETE
\* CASCADE) or is refused by the constraint, and the call raises.
EmailsAfterFolderDelete(id) == {e \in emails : e.folder_id # id}

FolderDeleteRefused(id) ==
    /\ \E e \in emails : e.folder_id = id
    /\ last' = Call("deleteFolder", <<id>>, Raised("FOREIGN KEY constraint failed"))
    /\ UNCHANGED <<folders, emails, attachments>>

deleteFolder_AnyFolder(id) ==
    /\ IF ~(\E f \in folders : f.id = id)
       THEN /\ last' = Call("deleteFolder", <<id>>, Bool(FALSE))
            /\ UNCHANGED <<folders, emails, attachments>>
       ELSE \/ /\ folders' = {f \in folders : f.id # id}
               /\ emails' = EmailsAfterFolderDelete(id)
               /\ attachments' = {a \in attachments : \E e \in emails' : e.id = a.email_id}
               /\ last' = Call("deleteFolder", <<id>>, Bool(TRUE))
            \/ FolderDeleteRefused(id)
    /\ UNCHANGED <<nextEmail, supplied, blobs>>

deleteFolder(id) ==
    /\ IF \/ ~(\E f \in folders : f.id = id)
          \/ \E f \in folders : f.id = id /\ f.is_deletable = 0
       THEN /\ last' = Call("deleteFolder", <<id>>, Bool(FALSE))
            /\ UNCHANGED <<folders, emails, attachments>>
       ELSE \/ /\ folders' = {f \in folders : f.id # id}
               /\ emails' = EmailsAfterFolderDelete(id)
               /\ attachments' = {a \in attachments : \E e \in emails' : e.id = a.email_id}
               /\ last' = Call("deleteFolder", <<id>>, Bool(TRUE))
            \/ FolderDeleteRefused(id)
    /\ UNCHANGED <<nextEmail, supplied, blobs>>

\* PostFolder.handle's answer to the store's result.
PostFolderResponse(newFolder) == IF newFolder = Null THEN 409 ELSE 201

\* DeleteFolder.handle's answer to the store's result.
DeleteFolderResponse(success) == IF success THEN 204 ELSE 400

createEmailAt_OnlyFirstRow(folder, email, rows) ==
    /\ emails' = emails \cup {[id |-> nextEmail, folder_id |-> folder,
                               created_in |-> folder, moved |-> FALSE] @@ email}
    /\ attachments' = IF Len(rows) > 0 THEN attachments \cup {rows[1]} ELSE attachments
    /\ nextEmail' = nextEmail + 1
    /\ last' = Call("createEmail", <<folder, nextEmail>>, Void)
    /\ UNCHANGED <<folders>>

\* createEmail(folder, email, attachments), for a fresh message id: the row
\* is { ...email, folder_id: folder }, where email holds the date the caller
\* stamped it with and the columns the run is about.
createEmailAt(folder, email, rows) ==
    /\ emails' = emails \cup {[id |-> nextEmail, folder_id |-> folder,
                               created_in |-> folder, moved |-> FALSE] @@ email}
    /\ attachments' = IF Len(rows) > 0
                      THEN attachments \cup {rows[i] : i \in 1 .. Len(rows)}
                      ELSE attachments
    /\ nextEmail' = nextEmail + 1
    /\ last' = Call("createEmail", <<folder, nextEmail>>, Void)
    /\ UNCHANGED <<folders>>

\* createEmail as the routes call it where no two emails share an instant:
\* the date is the order of creation.
createEmail(folder, rows) ==
    /\ nextEmail <= MaxEmails
    /\ createEmailAt(folder, [date |-> nextEmail], rows)

moveEmail_AnyTarget(id, folderId) ==
    /\ emails' = {IF e.id = id
                   THEN [e EXCEPT !.folder_id = folderId, !.moved = TRUE]
                   ELSE e : e \in emails}
    /\ last' = Call("moveEmail", <<id, folderId>>, Bool(TRUE))
    /\ UNCHANGED <<folders, attachments, nextEmail, supplied, blobs>>

moveEmail(id, folderId) ==
    /\ IF ~(\E f \in folders : f.id = folderId)
       THEN /\ last' = Call("moveEmail", <<id, folderId>>, Bool(FALSE))
            /\ UNCHANGED emails
       ELSE /\ emails' = {IF e.id = id
                          THEN [e EXCEPT !.folder_id = folderId, !.moved = TRUE]
                          ELSE e : e \in emails}
            /\ last' = Call("moveEmail", <<id, folderId>>, Bool(TRUE))
    /\ UNCHANGED <<folders, attachments, nextEmail, supplied, blobs>>

\* ORDER BY date DESC; rows of one date come in the order the table is
\* scanned in, which is the order they were inserted in.
RECURSIVE SortByDateDesc(_)
SortByDateDesc(rows) ==
    IF rows = {} THEN <<>>
    ELSE LET newest == CHOOSE e \in rows :
                          \A o \in rows : \/ o.date < e.date
                                          \/ o.date = e.date /\ e.id <= o.id
         IN <<newest>> \o SortByDateDesc(rows \ {newest})

\* LIMIT limit OFFSET offset
LimitOffset(seq, limit, offset) ==
    IF offset >= Len(seq) THEN <<>>
    ELSE SubSeq(seq, offset + 1, IF offset + limit < Len(seq) THEN offset + limit ELSE Len(seq))

\* offset = (page - 1) * limit; ORDER BY ... LIMIT limit OFFSET offset
ListPage_OffsetByPage(rows, page, limit) == LimitOffset(SortByDateDesc(rows), limit, page * limit)

ListPage(rows, page, limit) == LimitOffset(SortByDateDesc(rows), limit, (page - 1) * limit)

\* The rows the folder sub-select (name = ? OR id = ?) matches; LIMIT 1
\* without ORDER BY keeps any one of them.
FolderMatches(folder) == {f \in folders : f.name = folder \/ f.id = folder}

\* getEmails({folder, page, limit}); folder = "" is no folder filter, and
\* picked is the row the sub-select kept.
getEmails(folder, page, limit, picked) ==
    /\ folder # "" => \/ picked \in FolderMatches(folder)
                      \/ FolderMatches(folder) = {} /\ picked = Null
    /\ folder = "" => picked = Null
    /\ LET rows == IF folder = "" THEN emails
                   ELSE IF picked = Null THEN {}
                   ELSE {e \in emails : e.folder_id = picked.id}
           result == ListPage(rows, page, limit)
       IN last' = Call("getEmails", <<folder, page, limit>>,
                       [kind |-> "emails", ids |-> [i \in 1 .. Len(result) |-> result[i].id]])
    /\ UNCHANGED mailVars

\* text LIKE pattern: % stands for any run of characters, _ for any one
RECURSIVE Like(_, _)
Like(text, pattern) ==
    IF pattern = <<>> THEN text = <<>>
    ELSE IF Head(pattern) = "%"
    THEN Like(text, Tail(pattern)) \/ (text # <<>> /\ Like(Tail(text), pattern))
    ELSE /\ text # <<>>
         /\ Head(pattern) = "_" \/ Head(pattern) = Head(text)
         /\ Like(Tail(text), Tail(pattern))

\* `%${term}%`
Around(term) == <<"%">> \o term \o <<"%">>

\* searchEmails(options); an absent option is <<>>, and picked is the row
\* the folder sub-select kept.
searchEmails(opts, picked) ==
    /\ opts.folder # <<>> =>
          \/ picked \in FolderMatches(opts.folder[1])
          \/ FolderMatches(opts.folder[1]) = {} /\ picked = Null
    /\ opts.folder = <<>> => picked = Null
    /\ LET rows == {e \in emails :
                      /\ opts.folder # <<>> => (picked # Null /\ e.folder_id = picked.id)
                      /\ opts.from # <<>> => Like(e.sender, Around(opts.from[1]))
                      /\ opts.to # <<>> => Like(e.recipient, Around(opts.to[1]))
                      /\ opts.date_start # <<>> => e.date >= opts.date_start[1]
                      /\ opts.date_end # <<>> => e.date <= opts.date_end[1]
                      /\ \/ Like(e.subject, Around(opts.query))
                         \/ Like(e.body, Around(opts.query))}
       IN last' = Call("searchEmails", <<opts>>,
                       [kind |-> "found", ids |-> {e.id : e \in rows}])
    /\ UNCHANGED mailVars

\* attachments.email_id references emails(id) with ON DELETE CASCADE: the
\* attachment rows left once the email id is deleted
OnDeleteCascade(rows, id) == {a \in rows : a.email_id # id}

\* deleteEmail answering with the attachment rows it finds after the delete
deleteEmail_SelectsAfterDelete(id) ==
    /\ emails' = {e \in emails : e.id # id}
    /\ attachments' = OnDeleteCascade(attachments, id)
    /\ last' = Call("deleteEmail", <<id>>,
                    [kind |-> "attachments",
                     rows |-> {[id |-> a.id, filename |-> a.filename] :
                                  a \in {b \in attachments' : b.email_id = id}}])
    /\ UNCHANGED <<folders, nextEmail, supplied, blobs>>

deleteEmail(id) ==
    /\ emails' = {e \in emails : e.id # id}
    /\ attachments' = OnDeleteCascade(attachments, id)
    /\ last' = Call("deleteEmail", <<id>>,
                    [kind |-> "attachments",
                     rows |-> {[id |-> a.id, filename |-> a.filename] :
                                  a \in {b \in attachments : b.email_id = id}}])
    /\ UNCHANGED <<folders, nextEmail, supplied, blobs>>

\* The folder names a client types, and the ids it asks for.
FolderNames == {"Work", "inbox"}
FolderIds == {"inbox", "sent", "drafts", "trash", "work"}
MoveTargets == {"inbox", "work", "nowhere"}
EmailIds == 1 .. MaxEmails
Pickable == folders \cup {Null}

\* a call of a mailbox store: the credential store and the worker stay as they are
OnMailbox(call) == call /\ UNCHANGED <<authVars, histVars, routerVars, sideVars>>

NextFolders ==
    \/ OnMailbox(\E n \in FolderNames : createFolder(slugify(n), n))
    \/ OnMailbox(\E id \in {"inbox", "work"}, n \in FolderNames : updateFolder(id, n))
    \/ OnMailbox(\E id \in FolderIds : deleteFolder(id))
    \/ OnMailbox(\E f \in {"sent", "inbox"} : createEmail(f, <<>>) /\ UNCHANGED <<supplied, blobs>>)
    \/ OnMailbox(\E id \in EmailIds, f \in MoveTargets : moveEmail(id, f))
    \/ OnMailbox(\E f \in {"", "inbox", "sent", "work", "Work"}, picked \in Pickable :
                    getEmails(f, 1, DefaultLimit, picked))

SpecFolders == InitAuth /\ [][NextFolders]_vars

(***************************************************************************)
(* Seed folders.                                                           *)
(***************************************************************************)
SeedIds == {f.id : f \in SeedFolders}

SeedFoldersKept ==
    \A id \in SeedIds : \E f \in folders : f.id = id /\ f.is_deletable = 0

DeleteSeedRefused ==
    (last'.op = "deleteFolder" /\ last'.arg[1] \in SeedIds)
    => /\ last'.ret = Bool(FALSE)
       /\ folders' = folders
       /\ emails' = emails
       /\ DeleteFolderResponse(last'.ret.value) = 400

\* C7: the four seed folders exist from the first access on, each with
\* is_deletable = 0, whatever folder operations are called; deleteFolder on
\* one of them returns false, leaves the folders and the emails as they
\* were, and the route answers 400.
C7_SeedFoldersStay == []SeedFoldersKept /\ [][DeleteSeedRefused]_vars

\* C7, the case: with the inbox renamed and a folder of the user's beside
\* it, deleteFolder("inbox") has been refused.
C7_Witness ==
    /\ last = Call("deleteFolder", <<"inbox">>, Bool(FALSE))
    /\ \E f \in folders : f.id = "inbox" /\ f.name # "Inbox"
    /\ \E f \in folders : f.is_deletable = 1

C16_CollisionIsNull ==
    [][last'.op = "createFolder" =>
         LET id == last'.arg[1]
             name == last'.arg[2]
         IN IF \E f \in folders : f.id = id \/ f.name = name
            THEN /\ last'.ret = Null
                 /\ folders' = folders
                 /\ PostFolderResponse(last'.ret) = 409
            ELSE /\ last'.ret # Null
                 /\ last'.ret.kind = "folder"
                 /\ folders' = folders \cup {[id |-> id, name |-> name, is_deletable |-> 1]}
                 /\ PostFolderResponse(last'.ret) = 201]_vars

\* C16, the case: createFolder was answered null for the very pair a folder
\* of the user's already has.
C16_Witness ==
    /\ last.op = "createFolder"
    /\ last.ret = Null
    /\ \E f \in folders : /\ f.id = last.arg[1]
                          /\ f.name = last.arg[2]
                          /\ f.is_deletable = 1

(***************************************************************************)
(* Moves and listings.                                                     *)
(***************************************************************************)
Listed == {last'.ret.ids[i] : i \in 1 .. Len(last'.ret.ids)}

\* C8 as stated: an email created in F and moved to an existing folder G
\* (G # F) is listed by folder = G and not by folder = F; a move to a
\* folder id that names no folder returns false and changes no email.
C8_MoveThenList ==
    [][/\ (last'.op = "getEmails" /\ last'.arg[1] # "") =>
             \A e \in emails :
                (/\ e.moved
                 /\ e.folder_id # e.created_in
                 /\ \E g \in folders : g.id = e.folder_id)
                => /\ last'.arg[1] = e.folder_id => e.id \in Listed
                   /\ last'.arg[1] = e.created_in => e.id \notin Listed
       /\ (last'.op = "moveEmail" /\ ~(\E g \in folders : g.id = last'.arg[2])) =>
             /\ last'.ret = Bool(FALSE)
             /\ emails' = emails]_vars

\* C26 as stated: the folder filter takes a folder's name or its id.  For a
\* filter value that is the id or the name of a folder X, getEmails returns
\* exactly the emails whose folder_id is X's id, whatever folders were
\* created and renamed before (a folder may have been given another
\* folder's id as its name); for a value that is no folder's id or name it
\* returns no email.
C26_FolderFilter ==
    [][(last'.op = "getEmails" /\ last'.arg[1] # "") =>
          /\ \A x \in folders :
                (x.id = last'.arg[1] \/ x.name = last'.arg[1]) =>
                    Listed = {e.id : e \in {d \in emails : d.folder_id = x.id}}
          /\ (\A x \in folders : x.id # last'.arg[1] /\ x.name # last'.arg[1]) =>
                Listed = {}]_vars

(***************************************************************************)
(* Pages.  GetEmails.handle passes the query's page and limit on, each of  *)
(* them possibly absent (<<>>); getEmails puts its defaults in their       *)
(* place.  The emails listed here arrive two to an instant, so that dates  *)
(* are shared.                                                             *)
(***************************************************************************)
OrDefault(v, d) == IF v = <<>> THEN d ELSE v[1]

listEmails(query) ==
    getEmails("", OrDefault(query.page, DefaultPage), OrDefault(query.limit, DefaultLimit), Null)

\* date: new Date().toISOString(), for the n-th email of the run
Instant(n) == (n + 1) \div 2

PageLimits == {1, 2, DefaultLimit}
Queries ==
    {[page |-> pg, limit |-> l] :
        pg \in {<<>>} \cup {<<i>> : i \in 1 .. MaxPage},
        l \in {<<>>} \cup {<<i>> : i \in PageLimits}}

NextPages ==
    \/ OnMailbox(/\ nextEmail <= MaxListed
                 /\ createEmailAt("inbox", [date |-> Instant(nextEmail)], <<>>)
                 /\ UNCHANGED <<supplied, blobs>>)
    \/ OnMailbox(\E q \in Queries : listEmails(q))

SpecPages == InitAuth /\ [][NextPages]_vars

\* The place of an email in the listing: one more than the number of emails
\* that come before it (a later date, or the same date and an earlier insert).
Rank(e) ==
    1 + Cardinality({o \in emails : o.date > e.date \/ (o.date = e.date /\ o.id < e.id)})

Min(a, b) == IF a < b THEN a ELSE b

\* how many emails page pg of limit l holds when there are n
PageSize(n, pg, l) == IF n - (pg - 1) * l < 0 THEN 0 ELSE Min(l, n - (pg - 1) * l)

\* seq is page pg of limit l: the emails of ranks (pg-1)*l + 1 .. pg*l, in order
IsPage(seq, pg, l) ==
    /\ Len(seq) = PageSize(Cardinality(emails), pg, l)
    /\ Len(seq) <= l
    /\ \A i \in 1 .. Len(seq) :
          \E e \in emails : e.id = seq[i] /\ Rank(e) = (pg - 1) * l + i

IdsOf(rows) == [i \in 1 .. Len(rows) |-> rows[i].id]

\* For each limit, the pages 1 .. ceil(n / l) are the consecutive slices of
\* the ranking, so they are pairwise disjoint and hold every email once; the
\* page after the last is empty; a query without page and limit is page 1
\* of limit 25.
PagesPartition ==
    /\ \A e1, e2 \in emails : Rank(e1) = Rank(e2) => e1 = e2
    /\ \A l \in PageLimits :
          LET n == Cardinality(emails)
              pages == (n + l - 1) \div l
          IN /\ \A pg \in 1 .. pages :
                   /\ IsPage(IdsOf(ListPage(emails, pg, l)), pg, l)
                   /\ ListPage(emails, pg, l) # <<>>
             /\ ListPage(emails, pages + 1, l) = <<>>
    /\ IsPage(IdsOf(ListPage(emails, OrDefault(<<>>, DefaultPage),
                                        OrDefault(<<>>, DefaultLimit))), 1, 25)

GetEmailsIsPage ==
    (last'.op = "getEmails" /\ last'.arg[1] = "") =>
       /\ IsPage(last'.ret.ids, last'.arg[2], last'.arg[3])
       /\ emails' = emails

Subjects == {<<"a", "b">>, <<"c">>}
Bodies == {<<"b", "c">>}
Senders == {<<"x">>, <<"y">>}
Recipients == {<<"z">>}

\* the words a client searches for
SearchWords == {<<"a">>, <<"b", "c">>, <<"a", "_">>}
SearchOptions ==
    {[query |-> q, folder |-> f, from |-> fr, to |-> t, date_start |-> ds, date_end |-> de] :
        q \in SearchWords, f \in {<<>>, <<"inbox">>}, fr \in {<<>>, <<<<"x">>>>},
        t \in {<<>>, <<<<"z">>>>}, ds \in {<<>>, <<2>>}, de \in {<<>>, <<1>>}}

NextSearch ==
    \/ OnMailbox(\E f \in {"inbox", "sent"}, sub \in Subjects, b \in Bodies,
                    from \in Senders, to \in Recipients :
                    /\ nextEmail <= MaxEmails
                    /\ createEmailAt(f, [date |-> nextEmail, subject |-> sub, body |-> b,
                                         sender |-> from, recipient |-> to], <<>>)
                    /\ UNCHANGED <<supplied, blobs>>)
    \/ OnMailbox(\E o \in SearchOptions, picked \in Pickable : searchEmails(o, picked))

SpecSearch == InitAuth /\ [][NextSearch]_vars

\* text contains term as a substring
Contains(text, term) ==
    \E i \in 1 .. (Len(text) - Len(term) + 1) : SubSeq(text, i, i + Len(term) - 1) = term

\* the emails a search with these options is to return
SearchExpected(o) ==
    {e \in emails :
        /\ Contains(e.subject, o.query) \/ Contains(e.body, o.query)
        /\ o.from # <<>> => Contains(e.sender, o.from[1])
        /\ o.to # <<>> => Contains(e.recipient, o.to[1])
        /\ o.folder # <<>> =>
              \E f \in folders : (f.name = o.folder[1] \/ f.id = o.folder[1]) /\ e.folder_id = f.id
        /\ o.date_start # <<>> => e.date >= o.date_start[1]
        /\ o.date_end # <<>> => e.date <= o.date_end[1]}

\* C18 as stated: searchEmails returns exactly the emails whose subject or
\* body contains the query as a substring and that satisfy every filter
\* given (sender contains from, recipient contains to, the folder, date >=
\* date_start, date <= date_end); an absent filter excludes nothing.
C18_SearchExact ==
    [][last'.op = "searchEmails" =>
          last'.ret.ids = {e.id : e \in SearchExpected(last'.arg[1])}]_vars

(***************************************************************************)
(* Attachments.  The send routes build one metadata row per attachment of  *)
(* the request, under fresh ids; a null column is <<>> and a value v is    *)
(* <<v>>.                                                                  *)
(***************************************************************************)
\* att.contentId || null
OrNull(v) == IF v = <<>> \/ v = <<"">> THEN <<>> ELSE v

\* PostEmail.handle: attachmentData.push({...})
attachmentData(messageId, atts) ==
    [i \in 1 .. Len(atts) |->
        [id |-> <<messageId, i>>, email_id |-> messageId, filename |-> atts[i].filename,
         size |-> atts[i].content, content_id |-> OrNull(atts[i].contentId)]]

\* `attachments/${emailId}/${att.id}/${att.filename}`
BlobKey(emailId, att) == [email_id |-> emailId, id |-> att.id, filename |-> att.filename]

\* JSON.stringify and JSON.parse of a list of message ids
stringify(list) == [json |-> list]
parse(text) == text.json

\* a || b || c over optional values
Either(a, b, c) == IF a # <<>> THEN a ELSE IF b # <<>> THEN b ELSE c

\* The end the send, reply and forward handlers share, from the fresh
\* message id on: the objects are put, then createEmail("sent", ...) stores
\* the row with the threading columns the handler worked out.  via and
\* thread_given are history: the route, and whether the client named a thread.
Sent(email, atts) ==
    /\ createEmailAt("sent", [date |-> nextEmail] @@ email, attachmentData(nextEmail, atts))
    /\ blobs' = blobs \cup {BlobKey(nextEmail, attachmentData(nextEmail, atts)[i]) :
                                i \in 1 .. Len(atts)}
    /\ supplied' = Append(supplied, [request |-> atts,
                                     rows |-> attachmentData(nextEmail, atts)])

\* PostEmail.handle for a body with in_reply_to, references and thread_id,
\* each optional
PostEmailIn(body, atts) ==
    Sent([via |-> "send", thread_given |-> body.thread_id # <<>>,
          in_reply_to |-> body.in_reply_to,
          email_references |-> IF body.references = <<>> THEN <<>>
                               ELSE <<stringify(body.references[1])>>,
          thread_id |-> Either(body.thread_id, body.in_reply_to, <<nextEmail>>)], atts)

NoThreading == [in_reply_to |-> <<>>, references |-> <<>>, thread_id |-> <<>>]

\* PostEmail.handle for a new message
PostEmail(atts) ==
    /\ nextEmail <= MaxEmails
    /\ PostEmailIn(NoThreading, atts)

\* PostReplyEmail.handle: 404 without the original, else the reply
PostReplyEmail(id, atts) ==
    IF ~(\E e \in emails : e.id = id)
    THEN /\ last' = Call("PostReplyEmail", <<id>>, 404)
         /\ UNCHANGED mailVars
    ELSE LET originalEmail == CHOOSE e \in emails : e.id = id
             references == IF originalEmail.email_references # <<>>
                           THEN Append(parse(originalEmail.email_references[1]),
                                       originalEmail.id)
                           ELSE <<originalEmail.id>>
         IN Sent([via |-> "reply", thread_given |-> FALSE,
                  in_reply_to |-> <<originalEmail.id>>,
                  email_references |-> <<stringify(references)>>,
                  thread_id |-> Either(originalEmail.thread_id, <<originalEmail.id>>,
                                       <<originalEmail.id>>)], atts)

\* PostForwardEmail.handle: 404 without the original, else a thread of its own
PostForwardEmail(id, atts) ==
    IF ~(\E e \in emails : e.id = id)
    THEN /\ last' = Call("PostForwardEmail", <<id>>, 404)
         /\ UNCHANGED mailVars
    ELSE Sent([via |-> "forward", thread_given |-> FALSE, in_reply_to |-> <<>>,
               email_references |-> <<>>, thread_id |-> <<nextEmail>>], atts)

getEmail(id) ==
    /\ last' = Call("getEmail", <<id>>,
                    IF ~(\E e \in emails : e.id = id) THEN Null
                    ELSE [kind |-> "email", id |-> id,
                          attachments |-> {a \in attachments : a.email_id = id}])
    /\ UNCHANGED mailVars

\* DeleteEmail.handle, after stub.deleteEmail(id) has answered: the objects
\* of the rows it returned are deleted from the bucket.
DeleteEmailBlobs ==
    /\ last.op = "deleteEmail"
    /\ blobs' = blobs \ {BlobKey(last.arg[1], att) : att \in last.ret.rows}
    /\ last' = Call("DeleteEmail", last.arg, 204)
    /\ UNCHANGED <<folders, emails, attachments, nextEmail, supplied>>

\* The attachments a client sends: the decoded content is kept by its length.
AttachmentInputs ==
    {[filename |-> "a.txt", content |-> 3, contentId |-> <<>>],
     [filename |-> "b.png", content |-> 0, contentId |-> <<"cid1">>]}
AttachmentLists ==
    UNION {[1 .. n -> AttachmentInputs] : n \in 0 .. MaxAttachments}

NextAttachments ==
    \/ OnMailbox(\E atts \in AttachmentLists : PostEmail(atts))
    \/ OnMailbox(\E id \in EmailIds : getEmail(id))
    \/ OnMailbox(\E id \in EmailIds : deleteEmail(id))

SpecAttachments == InitAuth /\ [][NextAttachments]_vars

\* The attachment lists of the emails that get deleted.
DeletedLists ==
    {<<>>,
     <<[filename |-> "a.txt", content |-> 3, contentId |-> <<>>]>>,
     <<[filename |-> "a.txt", content |-> 3, contentId |-> <<>>],
       [filename |-> "b.png", content |-> 0, contentId |-> <<"cid1">>]>>}

NextDelete ==
    \/ OnMailbox(\E atts \in DeletedLists : PostEmail(atts))
    \/ OnMailbox(\E id \in EmailIds : getEmail(id))
    \/ OnMailbox(\E id \in EmailIds : deleteEmail(id))
    \/ OnMailbox(DeleteEmailBlobs)

SpecDelete == InitAuth /\ [][NextDelete]_vars

\* C19: deleteEmail(id) removes the email row and, with it, its attachment
\* rows: afterwards no email has the id (getEmail(id) is null) and no
\* attachment row has email_id = id; the list returned is exactly the
\* attachment rows that existed for id before the call, by id and filename;
\* every other email and attachment row, and every folder, is as it was; and
\* the store deletes no object of the bucket.
C19_DeleteEmailCascades ==
    [][last'.op = "deleteEmail" =>
          LET id == last'.arg[1]
              had == {a \in attachments : a.email_id = id}
          IN /\ ~(\E e \in emails' : e.id = id)
             /\ ~(\E a \in attachments' : a.email_id = id)
             /\ last'.ret.rows = {[id |-> a.id, filename |-> a.filename] : a \in had}
             /\ Cardinality(last'.ret.rows) = Cardinality(had)
             /\ emails' = {e \in emails : e.id # id}
             /\ attachments' = attachments \ had
             /\ folders' = folders
             /\ blobs' = blobs]_vars

\* C19, the case: deleteEmail has returned the two attachment rows of the
\* email it deleted, their objects are still in the bucket, and another
\* email keeps its attachment row.
C19_Witness ==
    /\ last.op = "deleteEmail"
    /\ Cardinality(last.ret.rows) = 2
    /\ \A att \in last.ret.rows : BlobKey(last.arg[1], att) \in blobs
    /\ \E e \in emails : \E a \in attachments : a.email_id = e.id

\* C9: getEmail of an email createEmail stored with N attachment entries
\* returns exactly those N rows: one per entry, under the entry's id, with
\* the email's id as email_id and the entry's filename, size and content_id
\* (null where the request gave no contentId); for N = 0 it returns none.
C9_AttachmentsRoundTrip ==
    [][(last'.op = "getEmail" /\ last'.ret # Null) =>
          LET id == last'.arg[1]
              sent == supplied[id]
              got == last'.ret.attachments
          IN /\ Cardinality(got) = Len(sent.rows)
             /\ \A a \in got : a.email_id = id
             /\ \A i \in 1 .. Len(sent.rows) :
                   \E a \in got :
                      /\ a.id = sent.rows[i].id
                      /\ a.filename = sent.request[i].filename
                      /\ a.size = sent.request[i].content
                      /\ a.content_id = sent.rows[i].content_id
                      /\ sent.request[i].contentId = <<>> => a.content_id = <<>>
                      /\ sent.request[i].contentId = <<"cid1">> => a.content_id = <<"cid1">>]_vars

\* C9, the case: getEmail has returned the two attachments of an email, one
\* sent with a contentId and one without, while another email has none.
C9_Witness ==
    /\ last.op = "getEmail"
    /\ last.ret # Null
    /\ Cardinality(last.ret.attachments) = MaxAttachments
    /\ \E a, b \in last.ret.attachments : a.content_id = <<>> /\ b.content_id # <<>>
    /\ \E e \in emails : \A a \in attachments : a.email_id # e.id

(***************************************************************************)
(* Initialization.  The constructor of MailboxDO runs at every load of an  *)
(* instance: it probes sqlite_master, decides what the instance is, and    *)
(* applies one of the two migration lists.  The ledger table is created    *)
(* first and each migration is a statement of its own, none of them inside *)
(* a transaction; the instance can be stopped between two of them, and     *)
(* what was written stays.                                                 *)
(***************************************************************************)
\* how many times one instance may be loaded in one run
MaxLoads == 3

AuthKey == "AUTH"
StoreKeys == {AuthKey, "a@x.com"}
\* the key of the stand-alone worker's one mailbox object
StandaloneKey == "default"

\* the two migration lists, and the tables each migration creates
authMigrations == <<"auth_1", "auth_2">>
mailboxMigrations == <<"mailbox_1", "mailbox_2">>
Creates(name) ==
    CASE name = "auth_1" -> {"users", "sessions"}
      [] name = "auth_2" -> {"user_mailboxes"}
      [] name = "mailbox_1" -> {"folders", "emails", "attachments"}
      [] name = "mailbox_2" -> {"contacts"}

Range(seq) == {seq[i] : i \in 1 .. Len(seq)}

NewStore ==
    [pc |-> "down", isAuthDO |-> FALSE, tables |-> {}, applied |-> {},
     first |-> <<>>, loads |-> 0, ran |-> <<>>, names |-> {}, seeded |-> 0]

InitLoads ==
    /\ stores = [k \in StoreKeys \cup {StandaloneKey} |-> NewStore]
    /\ regs = <<>>
    /\ InitLate
    /\ folders = {}
    /\ emails = {}
    /\ attachments = {}
    /\ nextEmail = 1
    /\ supplied = <<>>
    /\ blobs = {}
    /\ users = {}
    /\ sessions = {}
    /\ now = 0
    /\ nextUser = 1
    /\ nextSession = 1
    /\ seeding = {}
    /\ grants = {}
    /\ registered = {}
    /\ nulled = {}
    /\ last = Call("init", <<>>, Void)
    /\ options = defaultOptions
    /\ bucket = {}
    /\ req = NoRequest
    /\ registerSeen = FALSE

\* the list this load applies
Chosen(st) == IF st.isAuthDO THEN authMigrations ELSE mailboxMigrations

\* the migrations of a list that the ledger does not hold, in order
Unapplied(st, list) == SelectSeq(list, LAMBDA name : name \notin st.applied)

\* constructor, up to the first statement of apply(): the two probes, the
\* decision, and the ledger table
construct(k) ==
    LET st == stores[k]
        hasAuthTables == "users" \in st.tables
        isFirstInit == "migrations" \notin st.tables
        isAuth == IF isFirstInit THEN k = AuthKey ELSE hasAuthTables
    IN /\ st.pc = "down"
       /\ st.loads < MaxLoads
       /\ stores' = [stores EXCEPT ![k] =
                        [st EXCEPT !.pc = "applying", !.isAuthDO = isAuth,
                                   !.tables = @ \cup {"migrations"},
                                   !.first = IF @ = <<>> THEN <<isAuth>> ELSE @,
                                   !.loads = @ + 1]]
       /\ last' = Call("constructor", <<k>>, Void)
       /\ UNCHANGED <<authVars, histVars, routerVars, mailVars, regs, lateVars>>

\* apply(): the next migration of the chosen list that the ledger does not
\* hold; mailbox_1 seeds the system folders when there is no folder yet.
\* The rows of the mailbox are the variable folders; the folders table of
\* the AUTH instance, should it get one, is kept by name in names.
applyNext(k) ==
    LET st == stores[k]
        todo == Unapplied(st, Chosen(st))
    IN /\ st.pc = "applying"
       /\ todo # <<>>
       /\ stores' = [stores EXCEPT ![k] =
                        [st EXCEPT !.tables = @ \cup Creates(Head(todo)),
                                   !.applied = @ \cup {Head(todo)},
                                   !.ran = Append(@, Head(todo)),
                                   !.names = IF Head(todo) = "mailbox_1" /\ k = AuthKey
                                                /\ @ = {}
                                             THEN {f.name : f \in SeedFolders} ELSE @]]
       /\ folders' = IF Head(todo) = "mailbox_1" /\ k # AuthKey /\ folders = {}
                     THEN SeedFolders ELSE folders
       /\ last' = Call("migration", <<k, Head(todo)>>, Void)
       /\ UNCHANGED <<authVars, histVars, routerVars, emails, attachments, nextEmail,
                      supplied, blobs, regs, lateVars>>

\* the constructor returns: the instance takes calls
constructed(k) ==
    LET st == stores[k]
    IN /\ st.pc = "applying"
       /\ Unapplied(st, Chosen(st)) = <<>>
       /\ stores' = [stores EXCEPT ![k] = [st EXCEPT !.pc = "up"]]
       /\ last' = Call("constructed", <<k>>, Void)
       /\ UNCHANGED <<authVars, histVars, routerVars, mailVars, regs, lateVars>>

\* the instance is evicted or its isolate is stopped: storage stays
stop(k) ==
    /\ stores[k].pc # "down"
    /\ stores' = [stores EXCEPT ![k] = [@ EXCEPT !.pc = "down"]]
    /\ last' = Call("stop", <<k>>, Void)
    /\ UNCHANGED <<authVars, histVars, routerVars, mailVars, regs, lateVars>>

\* initSchema seeding whether or not a folder exists
initSchema_SeedsAlways(k) ==
    LET st == stores[k]
    IN /\ st.pc = "down"
       /\ st.loads < MaxLoads
       /\ stores' = [stores EXCEPT ![k] =
                        [st EXCEPT !.pc = "up",
                                   !.tables = @ \cup {"admins", "folders", "settings",
                                                      "messages"},
                                   !.names = @ \cup {"INBOX", "SENT", "DRAFTS", "TRASH"},
                                   !.seeded = @ + 1,
                                   !.loads = @ + 1]]
       /\ last' = Call("initSchema", <<k>>, Void)
       /\ UNCHANGED <<authVars, histVars, routerVars, mailVars, regs, lateVars>>

\* The stand-alone worker's MailboxDO: constructor and initSchema, which
\* runs inside blockConcurrencyWhile.  names holds the folders table (by
\* name), seeded counts the times the four defaults were inserted.
initSchema(k) ==
    LET st == stores[k]
    IN /\ st.pc = "down"
       /\ st.loads < MaxLoads
       /\ stores' = [stores EXCEPT ![k] =
                        [st EXCEPT !.pc = "up",
                                   !.tables = @ \cup {"admins", "folders", "settings",
                                                      "messages"},
                                   !.names = IF @ = {} THEN {"INBOX", "SENT", "DRAFTS", "TRASH"}
                                             ELSE @,
                                   !.seeded = IF st.names = {} THEN @ + 1 ELSE @,
                                   !.loads = @ + 1]]
       /\ last' = Call("initSchema", <<k>>, Void)
       /\ UNCHANGED <<authVars, histVars, routerVars, mailVars, regs, lateVars>>

\* a call on a loaded instance
Loaded(k, isAuth) == stores[k].pc = "up" /\ stores[k].isAuthDO = isAuth

OnLoaded(k, isAuth, call) == Loaded(k, isAuth) /\ call /\ UNCHANGED sideVars

NextLoads ==
    \/ \E k \in StoreKeys : construct(k)
    \/ \E k \in StoreKeys : applyNext(k)
    \/ \E k \in StoreKeys : constructed(k)
    \/ \E k \in StoreKeys \cup {StandaloneKey} : stop(k)
    \/ initSchema(StandaloneKey)
    \/ OnLoaded("a@x.com", FALSE,
                (\E n \in {"Work"} : createFolder(slugify(n), n))
                   /\ UNCHANGED <<authVars, histVars, routerVars>>)
    \/ OnLoaded(AuthKey, TRUE,
                (\E s \in OneSalt : register("a@x.com", "password1", ~hasUsers, s))
                   /\ UNCHANGED <<routerVars, mailVars>>)

SpecLoads == InitLoads /\ [][NextLoads]_vars

KindOf(k) == k = AuthKey

\* the kind of an instance is the kind its first initialization chose,
\* which is the kind of its key
KindKept ==
    \A k \in StoreKeys :
        stores[k].first # <<>> =>
            /\ stores[k].first[1] = KindOf(k)
            /\ stores[k].pc # "down" => stores[k].isAuthDO = stores[k].first[1]

\* no instance has run a migration of the other list
OwnMigrationsOnly ==
    \A k \in StoreKeys :
        Range(stores[k].ran) \subseteq
            Range(IF KindOf(k) THEN authMigrations ELSE mailboxMigrations)

\* C21 as stated: for every key, the kind chosen at first initialization
\* (credential store iff the key is AUTH) is the kind every later load
\* detects, a load after a stop in the middle of the first initialization
\* included; the AUTH instance never applies a mailbox migration and a
\* mailbox instance never applies an auth migration.
C21_KindKept == KindKept /\ OwnMigrationsOnly

\* the instance has been through a whole initialization
Initialized(k) ==
    \/ Range(authMigrations) \subseteq stores[k].applied
    \/ Range(mailboxMigrations) \subseteq stores[k].applied
    \/ k = StandaloneKey /\ "folders" \in stores[k].tables

\* a step of a constructor, or a stop, of an initialized instance
Reinitializes(k) == Initialized(k) /\ stores'[k] # stores[k]

ReinitializationKeeps ==
    \A k \in DOMAIN stores :
        Reinitializes(k) =>
            /\ stores'[k].ran = stores[k].ran
            /\ stores'[k].applied = stores[k].applied
            /\ stores'[k].tables = stores[k].tables
            /\ stores'[k].names = stores[k].names
            /\ stores'[k].seeded = stores[k].seeded
            /\ UNCHANGED <<folders, emails, attachments, users, sessions, grants>>

AppliedOnce ==
    \A k \in DOMAIN stores :
        /\ \A i, j \in 1 .. Len(stores[k].ran) :
              stores[k].ran[i] = stores[k].ran[j] => i = j
        /\ stores[k].seeded <= 1

SystemFoldersOnce ==
    \A f \in SeedFolders : Cardinality({g \in folders : g.id = f.id}) <= 1

\* C24: initialization is idempotent.  Loading an instance that has been
\* initialized before, any number of times, applies no migration again
\* (no migration is ever applied twice), neither seeds the system folders
\* again nor duplicates them, and leaves the schema and every row as they
\* were.
C24_InitIdempotent ==
    /\ [](AppliedOnce /\ SystemFoldersOnce)
    /\ [][ReinitializationKeeps]_vars

\* C24, the case: a mailbox instance that holds a folder of the user's, and
\* an account store that holds a user, have each been loaded again after
\* their initialization, and so has the stand-alone worker's object.
C24_Witness ==
    /\ \A k \in DOMAIN stores : stores[k].pc = "up" /\ stores[k].loads >= 2
    /\ \E f \in folders : f.id = "work"
    /\ users # {}

(***************************************************************************)
(* First boot.  Every request calls bootstrapDefaultAdmins before anything *)
(* else, so the first requests of a deployment are inside                  *)
(* ensureDefaultAdmins together: each has counted no user and waits for    *)
(* its hash.  The requests themselves are logins of an administrator.      *)
(***************************************************************************)
BootCallers == 1 .. (MaxCallers + 1)

NextBoot ==
    \/ OnAuth(\E c \in BootCallers : ensureDefaultAdmins(c))
    \/ OnAuth(\E c \in BootCallers, s \in Salts : ensureDefaultAdmins_Insert(c, s))
    \/ OnAuth(\E i \in 1 .. Len(admins) : login(admins[i], AdminPassword))

SpecBoot == InitAuth /\ [][NextBoot]_vars

NoBootCallRaises ==
    last'.op \in {"ensureDefaultAdmins", "ensureDefaultAdmins.hash"} => last'.ret = Void

\* every call has returned, and one of them got as far as the inserts
BootOver == seeding = {} /\ nextUser > 1

OneRowPerDefaultAdmin ==
    /\ \A i \in 1 .. Len(admins) : Cardinality({u \in users : u.email = admins[i]}) = 1
    /\ Cardinality(users) = Len(admins)

\* C22: however the ensureDefaultAdmins calls of concurrent first requests
\* interleave on an empty users table (they overlap at the await of the
\* password hash, between the count and the inserts), no call raises, and
\* once they have all returned the users table holds exactly one row per
\* default administrator address.
C22_ConcurrentFirstBoot ==
    /\ [](BootOver => OneRowPerDefaultAdmin)
    /\ [][NoBootCallRaises]_vars

\* C22, the case: two calls counted no user, and the second one ran its
\* inserts after the first had inserted both rows.
C22_Witness ==
    /\ BootOver
    /\ last.op = "ensureDefaultAdmins"
    /\ nextUser = 1 + 2 * Len(admins)
    /\ Cardinality(users) = Len(admins)

(***************************************************************************)
(* Concurrent registration.  Each POST /api/v1/auth/register goes through  *)
(* fetch: bootstrapDefaultAdmins first, then PostRegister.handle, whose    *)
(* hasUsers and register calls are separate calls of the store; requests   *)
(* interleave between any two of them.                                     *)
(***************************************************************************)
\* how many register requests one run holds
MaxRegisters == 2

Registers == 1 .. MaxRegisters
IdleRegister == [pc |-> "idle", email |-> "", first |-> FALSE, status |-> 0, created |-> <<>>]

InitRegisters ==
    /\ InitMailbox
    /\ stores = <<>>
    /\ regs = [r \in Registers |-> IdleRegister]
    /\ InitLate
    /\ users = {}
    /\ sessions = {}
    /\ now = 0
    /\ nextUser = 1
    /\ nextSession = 1
    /\ seeding = {}
    /\ grants = {}
    /\ registered = {}
    /\ nulled = {}
    /\ last = Call("init", <<>>, Void)
    /\ options \in {d \in Deployments : d.enabled /\ d.registerEnabled # "false"}
    /\ bucket = {}
    /\ req = NoRequest
    /\ registerSeen = FALSE

RegisterFrame == UNCHANGED <<routerVars, mailVars, stores, lateVars>>

\* the request arrives
RegisterArrives(r, email) ==
    /\ regs[r].pc = "idle"
    /\ regs' = [regs EXCEPT ![r] = [@ EXCEPT !.pc = "boot", !.email = email]]
    /\ last' = Call("fetch", <<r>>, Void)
    /\ UNCHANGED <<authVars, histVars>>
    /\ RegisterFrame

\* fetch: await bootstrapDefaultAdmins(env), up to the await of the hash
RegisterBoots(r) ==
    /\ regs[r].pc = "boot"
    /\ ensureDefaultAdmins(r)
    /\ regs' = [regs EXCEPT ![r] = [@ EXCEPT !.pc = IF hasUsers THEN "route" ELSE "hash"]]
    /\ RegisterFrame

\* bootstrapDefaultAdmins: the inserts
RegisterBootInserts(r, salt) ==
    /\ regs[r].pc = "hash"
    /\ ensureDefaultAdmins_Insert(r, salt)
    /\ regs' = [regs EXCEPT ![r] = [@ EXCEPT !.pc = "route"]]
    /\ RegisterFrame

\* PostRegister.handle: smart mode asks hasUsers and closes registration
RegisterGate(r) ==
    /\ regs[r].pc = "route"
    /\ IF options.registerEnabled = "undefined"
       THEN /\ last' = Call("hasUsers", <<r>>, [kind |-> "bool", value |-> hasUsers])
            /\ regs' = [regs EXCEPT ![r] =
                           IF hasUsers THEN [@ EXCEPT !.pc = "done", !.status = 403]
                           ELSE [@ EXCEPT !.pc = "first"]]
       ELSE /\ last' = Call("PostRegister", <<r>>, Void)
            /\ regs' = [regs EXCEPT ![r] = [@ EXCEPT !.pc = "first"]]
    /\ UNCHANGED <<authVars, histVars>>
    /\ RegisterFrame

\* PostRegister.handle: isFirstUser = !(await authDO.hasUsers())
RegisterAsksFirst(r) ==
    /\ regs[r].pc = "first"
    /\ last' = Call("hasUsers", <<r>>, [kind |-> "bool", value |-> hasUsers])
    /\ regs' = [regs EXCEPT ![r] = [@ EXCEPT !.pc = "register", !.first = ~hasUsers]]
    /\ UNCHANGED <<authVars, histVars>>
    /\ RegisterFrame

\* PostRegister.handle: authDO.register(email, password, isFirstUser)
RegisterRegisters(r, salt) ==
    /\ regs[r].pc = "register"
    /\ register(regs[r].email, "password1", regs[r].first, salt)
    /\ regs' = [regs EXCEPT ![r] =
                   IF UniqueEmailFails(regs[r].email)
                   THEN [@ EXCEPT !.pc = "done", !.status = 400]
                   ELSE [@ EXCEPT !.pc = "done", !.status = 201, !.created = <<nextUser>>]]
    /\ RegisterFrame

NextRegisters ==
    \/ \E r \in Registers, e \in Emails : RegisterArrives(r, e)
    \/ \E r \in Registers : RegisterBoots(r)
    \/ \E r \in Registers, s \in Salts : RegisterBootInserts(r, s)
    \/ \E r \in Registers : RegisterGate(r)
    \/ \E r \in Registers : RegisterAsksFirst(r)
    \/ \E r \in Registers, s \in OneSalt : RegisterRegisters(r, s)

SpecRegisters == InitRegisters /\ [][NextRegisters]_vars

\* the user rows POST /api/v1/auth/register has created
RouteUsers == {u \in users : \E r \in Registers : regs[r].created = <<u.id>>}

AtMostOneRegisteredAdmin ==
    /\ Cardinality({u \in RouteUsers : u.is_admin = 1}) <= 1
    /\ \A u \in RouteUsers : u.is_admin = 1 => \A v \in users : u.id <= v.id

FirstRegisteredIsAdmin ==
    \A u \in RouteUsers : (\A v \in RouteUsers : u.id <= v.id) => u.is_admin = 1

\* C23 as stated: exactly the first user ever registered is an
\* administrator.  However the public register requests interleave (each
\* calls hasUsers and then register), at most one user created through
\* POST /api/v1/auth/register has is_admin set, it is the first user row
\* ever created, and the first user registered has it set.
C23_FirstRegisteredIsAdmin == AtMostOneRegisteredAdmin /\ FirstRegisteredIsAdmin

(***************************************************************************)
(* Attachment objects.  Every path that stores an email puts the bytes of  *)
(* each attachment in the bucket and a row in the attachments table; the   *)
(* attachment route reads the row and builds the key from it.  A parsed    *)
(* attachment may come without a filename: <<>>.                           *)
(***************************************************************************)
\* `${att.filename}` inside a template string
Interpolated(v) == IF v = <<>> THEN "undefined" ELSE v[1]

\* att.filename || "untitled"
OrUntitled(v) == IF v = <<>> \/ v = <<"">> THEN "untitled" ELSE v[1]

\* receiveEmail: attachmentData.push({...})
receivedData(messageId, atts) ==
    [i \in 1 .. Len(atts) |->
        [id |-> <<messageId, i>>, email_id |-> messageId,
         filename |-> OrUntitled(atts[i].filename),
         size |-> atts[i].content, content_id |-> OrNull(atts[i].contentId)]]

\* receiveEmail, from the fresh message id on; the columns createEmail is
\* not given are NULL
Received(atts) ==
    /\ createEmailAt("inbox", [date |-> nextEmail, via |-> "receive", thread_given |-> FALSE,
                               in_reply_to |-> <<>>, email_references |-> <<>>,
                               thread_id |-> <<>>], receivedData(nextEmail, atts))
    /\ blobs' = blobs \cup {[email_id |-> nextEmail, id |-> <<nextEmail, i>>,
                              filename |-> Interpolated(atts[i].filename)] :
                                i \in 1 .. Len(atts)}
    /\ supplied' = Append(supplied, [request |-> atts,
                                     rows |-> receivedData(nextEmail, atts)])

receiveEmail(atts) ==
    /\ nextEmail <= MaxEmails
    /\ Received(atts)

\* GetAttachment.handle
GetAttachment(emailId, attachmentId) ==
    /\ last' = Call("GetAttachment", <<emailId, attachmentId>>,
                    IF ~(\E a \in attachments : a.id = attachmentId) THEN 404
                    ELSE LET attachment == CHOOSE a \in attachments : a.id = attachmentId
                         IN IF BlobKey(emailId, attachment) \in blobs THEN 200 ELSE 404)
    /\ UNCHANGED mailVars

\* the attachments of a received email, and of a sent one
ReceivedLists ==
    {<<>>,
     <<[filename |-> <<"c.pdf">>, content |-> 2, contentId |-> <<>>]>>,
     <<[filename |-> <<"c.pdf">>, content |-> 2, contentId |-> <<>>],
       [filename |-> <<>>, content |-> 1, contentId |-> <<"cid2">>]>>}
SentLists == {atts \in AttachmentLists : Len(atts) <= 1}

NextBlobs ==
    \/ OnMailbox(\E atts \in SentLists : PostEmail(atts))
    \/ OnMailbox(\E atts \in ReceivedLists : receiveEmail(atts))
    \/ OnMailbox(\E id \in EmailIds, atts \in SentLists :
                    nextEmail <= MaxEmails /\ PostReplyEmail(id, atts))
    \/ OnMailbox(\E id \in EmailIds, atts \in SentLists :
                    nextEmail <= MaxEmails /\ PostForwardEmail(id, atts))
    \/ OnMailbox(\E a \in attachments : GetAttachment(a.email_id, a.id))

SpecBlobs == InitAuth /\ [][NextBlobs]_vars

\* C25 as stated: for every attachment row the send, reply, forward and
\* receive paths have stored, the object is in the bucket under the key built from the
\* row's email_id, id and filename, so that the attachment route, which
\* builds that key, answers 200 for every stored attachment, a received
\* attachment without a filename included.
C25_BlobUnderRowKey ==
    /\ [](\A a \in attachments : BlobKey(a.email_id, a) \in blobs)
    /\ [][last'.op = "GetAttachment" => last'.ret = 200]_vars

(***************************************************************************)
(* Threads.  A mailbox receives emails and sends new ones, replies and     *)
(* forwards; a message sent through the send route may name the email it   *)
(* answers in in_reply_to.                                                 *)
(***************************************************************************)
\* how many emails the mailbox whose threads are followed may come to hold
MaxThread == 3

ThreadIds == 1 .. MaxThread
\* the bodies of the send route: a new message, or an answer to an email
\* of the mailbox, with or without a thread named by the client
SendBodies ==
    {NoThreading} \cup
    UNION {{[in_reply_to |-> <<id>>, references |-> r, thread_id |-> t] :
               r \in {<<>>, <<<<id>>>>}, t \in {<<>>, <<id>>}} : id \in {e.id : e \in emails}}

NextThreads ==
    \/ OnMailbox(nextEmail <= MaxThread /\ Received(<<>>))
    \/ OnMailbox(\E body \in SendBodies : nextEmail <= MaxThread /\ PostEmailIn(body, <<>>))
    \/ OnMailbox(\E id \in ThreadIds : nextEmail <= MaxThread /\ PostReplyEmail(id, <<>>))
    \/ OnMailbox(\E id \in ThreadIds : nextEmail <= MaxThread /\ PostForwardEmail(id, <<>>))

SpecThreads == InitAuth /\ [][NextThreads]_vars

EmailOf(id) == CHOOSE e \in emails : e.id = id

\* the first email of the chain of in_reply_to that e ends
RECURSIVE RootOf(_)
RootOf(e) ==
    IF e.in_reply_to = <<>> \/ ~(\E o \in emails : o.id = e.in_reply_to[1]) THEN e
    ELSE RootOf(EmailOf(e.in_reply_to[1]))

ThreadIsRoot ==
    \A e \in emails :
        (e.via \in {"send", "reply", "forward"} /\ ~e.thread_given) =>
            e.thread_id = <<RootOf(e).id>>

ReplyRefersToOriginal ==
    \A e \in emails :
        e.via = "reply" =>
            /\ e.in_reply_to # <<>>
            /\ \E o \in emails :
                  /\ e.in_reply_to = <<o.id>>
                  /\ parse(e.email_references[1]) =
                        (IF o.email_references = <<>> THEN <<>>
                         ELSE parse(o.email_references[1])) \o <<o.id>>

\* C27 as stated: an email the send, reply or forward route stores
\* without a thread_id from the client has as thread_id the id of the
\* root of its in_reply_to chain, its own id when it answers nothing, so
\* that the emails of one chain share a thread_id; and a reply has
\* in_reply_to = the original's id and email_references = the original's
\* references followed by the original's id.
C27_ThreadIsRoot == ThreadIsRoot /\ ReplyRefersToOriginal

(***************************************************************************)
(* Account recovery.                                                       *)
(***************************************************************************)
\* how many reset-password requests may be in flight at once
MaxResets == 2
\* how many recovery tokens may be issued in one run
MaxTokens == 1
\* how far the clock runs, in hours
MaxHours == 2
\* const expiresAt = Date.now() + 3600000
TokenHours == 1

Resetters == 1 .. MaxResets
\* the tokens a request may carry: those issued and one that never was
TokenIds == 1 .. (MaxTokens + 1)
RecoveryEmails == {"a@x.com", "b@x.com"}
IdleReset == [pc |-> "idle", token |-> 0, newPassword |-> "", userId |-> 0]

\* the deployment's config with or without accountRecovery
RecoveryDeployments == {defaultOptions @@ [accountRecovery |-> b] : b \in BOOLEAN}

InitResets ==
    /\ InitMailbox
    /\ stores = <<>>
    /\ regs = <<>>
    /\ tokens = {}
    /\ resets = [r \in Resetters |-> IdleReset]
    /\ clock = 0
    /\ DB = [tables |-> {}, messages |-> {}]
    /\ users = {}
    /\ sessions = {}
    /\ now = 0
    /\ nextUser = 1
    /\ nextSession = 1
    /\ seeding = {}
    /\ grants = {}
    /\ registered = {}
    /\ nulled = {}
    /\ last = Call("init", <<>>, Void)
    /\ options \in RecoveryDeployments
    /\ bucket = {}
    /\ req = NoRequest
    /\ registerSeen = FALSE

ResetFrame == UNCHANGED <<routerVars, mailVars, histVars, stores, regs, DB,
                          sessions, now, nextUser, nextSession, seeding, grants>>

\* the objects under recovery-tokens/ that BUCKET.get finds
Stored == {t \in tokens : t.stored}

PostForgotPassword(email, sent) ==
    /\ IF ~options.accountRecovery
       THEN /\ last' = Call("PostForgotPassword", <<email>>, 503)
            /\ UNCHANGED tokens
       ELSE IF ~(\E u \in users : u.email = email)
       THEN /\ last' = Call("PostForgotPassword", <<email>>, 404)
            /\ UNCHANGED tokens
       ELSE /\ Cardinality(tokens) < MaxTokens
            /\ tokens' = tokens \cup {[token |-> Cardinality(tokens) + 1,
                                       userId |-> userByEmail(email).id,
                                       expiresAt |-> clock + TokenHours,
                                       stored |-> TRUE, changes |-> 0, late |-> FALSE]}
            /\ last' = Call("PostForgotPassword", <<email>>, IF sent THEN 200 ELSE 500)
    /\ UNCHANGED <<users, resets, clock>>
    /\ ResetFrame

\* PostResetPassword.handle up to and including the check of expiresAt
ResetReads(r, token, newPassword) ==
    /\ resets[r].pc = "idle"
    /\ IF ~options.accountRecovery
       THEN /\ last' = Call("PostResetPassword", <<r, token>>, 503)
            /\ UNCHANGED resets
       ELSE IF ~(\E t \in Stored : t.token = token)
       THEN /\ last' = Call("PostResetPassword", <<r, token>>, 401)
            /\ UNCHANGED resets
       ELSE LET tokenData == CHOOSE t \in Stored : t.token = token
            IN /\ resets' = [resets EXCEPT ![r] =
                                [pc |-> IF tokenData.expiresAt < clock
                                        THEN "expired" ELSE "update",
                                 token |-> token, newPassword |-> newPassword,
                                 userId |-> tokenData.userId]]
               /\ last' = Call("BUCKET.get", <<r, token>>, Void)
    /\ UNCHANGED <<users, tokens, clock>>
    /\ ResetFrame

\* BUCKET.delete(tokenKey)
Deleted(token) == {IF t.token = token THEN [t EXCEPT !.stored = FALSE] ELSE t : t \in tokens}

\* the token has expired: it is deleted and the answer is 401
ResetExpired(r) ==
    /\ resets[r].pc = "expired"
    /\ tokens' = Deleted(resets[r].token)
    /\ resets' = [resets EXCEPT ![r] = IdleReset]
    /\ last' = Call("PostResetPassword", <<r, resets[r].token>>, 401)
    /\ UNCHANGED <<users, clock>>
    /\ ResetFrame

\* authStub.updateUserPassword(tokenData.userId, newPassword); the AUTH
\* instance is an auth store here, so the call does not throw
ResetUpdates(r, salt) ==
    /\ resets[r].pc = "update"
    /\ updateUserPassword(resets[r].userId, resets[r].newPassword, salt)
    /\ tokens' = {IF t.token = resets[r].token
                  THEN [t EXCEPT !.changes = @ + 1,
                                 !.late = @ \/ t.expiresAt < clock]
                  ELSE t : t \in tokens}
    /\ resets' = [resets EXCEPT ![r] = [@ EXCEPT !.pc = "delete"]]
    /\ UNCHANGED <<clock, routerVars, mailVars, stores, regs, DB>>

\* the used token is deleted and the answer is 200
ResetDeletes(r) ==
    /\ resets[r].pc = "delete"
    /\ tokens' = Deleted(resets[r].token)
    /\ resets' = [resets EXCEPT ![r] = IdleReset]
    /\ last' = Call("PostResetPassword", <<r, resets[r].token>>, 200)
    /\ UNCHANGED <<users, clock>>
    /\ ResetFrame

HourPasses ==
    /\ clock < MaxHours
    /\ clock' = clock + 1
    /\ last' = Call("tick", <<>>, Void)
    /\ UNCHANGED <<users, tokens, resets>>
    /\ ResetFrame

NextResets ==
    \/ \E e \in RecoveryEmails, p \in Passwords, salt \in OneSalt :
          OnAuth(register(e, p, FALSE, salt))
    \/ \E e \in RecoveryEmails, sent \in BOOLEAN : PostForgotPassword(e, sent)
    \/ \E r \in Resetters, t \in TokenIds, p \in Passwords : ResetReads(r, t, p)
    \/ \E r \in Resetters : ResetExpired(r)
    \/ \E r \in Resetters, salt \in OneSalt : ResetUpdates(r, salt)
    \/ \E r \in Resetters : ResetDeletes(r)
    \/ HourPasses

SpecResets == InitResets /\ [][NextResets]_vars

TokenUsedOnce == \A t \in tokens : t.changes <= 1
TokenNotUsedLate == \A t \in tokens : ~t.late

\* a reset request that reads the bucket once the token has changed a
\* password, or once it has expired, is not let through to the update
ReadAfterUseRejected ==
    \A r \in Resetters :
        (resets[r].pc = "idle" /\ resets'[r].pc = "update") =>
            \A t \in tokens : t.token = resets'[r].token => t.changes = 0 /\ ~t.late

\* C29: a password-recovery token changes a password at most once and never
\* after its one-hour expiry: once a reset with the token has succeeded, or
\* once the token has expired, every reset request with it is rejected and
\* leaves the password hash as it was, however concurrent requests that
\* carry the same token interleave.
C29_TokenOnce ==
    [](TokenUsedOnce /\ TokenNotUsedLate) /\ [][ReadAfterUseRejected]_vars

(***************************************************************************)
(* The D1-backed worker.                                                   *)
(***************************************************************************)
\* how many ids crypto.randomUUID() may hand out in one run
MaxUuids == 1

UUIDs == [i \in 1 .. MaxUuids |-> <<"uuid", i>>]

\* (a || b || "default").trim(), on the values drawn below
Trim(text) == IF text = "B " THEN "B" ELSE text
Truthy(v) == v # <<>> /\ v # <<"">>
mailboxIdFrom(request) ==
    Trim(IF Truthy(request.query) THEN request.query[1]
         ELSE IF Truthy(request.header) THEN request.header[1]
         ELSE "default")

D1Requests == [query : {<<>>, <<"A">>, <<"B">>}, header : {<<>>, <<"B ">>}]
D1Mailboxes == {mailboxIdFrom(request) : request \in D1Requests}

\* the message objects a saveMessage request may carry
D1Messages ==
    {[id |-> <<>>, subject |-> <<"hello">>, folder |-> <<>>, read |-> FALSE,
      receivedAt |-> <<>>],
     [id |-> <<<<"id", 1>>>>, subject |-> <<"hello">>, folder |-> <<"Archive">>,
      read |-> TRUE, receivedAt |-> <<>>],
     [id |-> <<<<"id", 1>>>>, subject |-> <<>>, folder |-> <<>>, read |-> FALSE,
      receivedAt |-> <<0>>]}

D1Frame == UNCHANGED <<authVars, histVars, routerVars, mailVars, stores, regs,
                       tokens, resets, clock>>

\* POST /api/init
initSchemaD1 ==
    /\ DB' = [DB EXCEPT !.tables = @ \cup {"messages", "settings"}]
    /\ last' = Call("initSchema", <<>>, 200)
    /\ D1Frame

MessagesOf(mailboxId) == {row \in DB.messages : row.mailbox_id = mailboxId}

\* ORDER BY datetime(COALESCE(received_at, created_at)) DESC: rows of one
\* instant come in either order
Orderings(rows) ==
    {seq \in [1 .. Cardinality(rows) -> rows] :
        /\ \A i, j \in DOMAIN seq : i < j =>
               /\ seq[i] # seq[j]
               /\ seq[i].received_at >= seq[j].received_at}

\* GET /api/getMessages
getMessages(mailboxId) ==
    /\ IF "messages" \notin DB.tables
       THEN last' = Call("getMessages", <<mailboxId>>, Raised("no such table: messages"))
       ELSE \E seq \in Orderings(MessagesOf(mailboxId)) :
               last' = Call("getMessages", <<mailboxId>>, seq)
    /\ UNCHANGED DB
    /\ D1Frame

\* String(message.id || crypto.randomUUID())
FreshUuid == UUIDs[1 + Cardinality({row \in DB.messages : row.id \in Range(UUIDs)})]

Inserted(mailboxId, message, id) ==
    [id |-> id, mailbox_id |-> mailboxId,
     subject |-> IF Truthy(message.subject) THEN message.subject ELSE <<>>,
     folder |-> IF Truthy(message.folder) THEN message.folder[1] ELSE "INBOX",
     read |-> IF message.read THEN 1 ELSE 0,
     received_at |-> IF message.receivedAt # <<>> THEN message.receivedAt[1] ELSE clock,
     created_at |-> clock]

\* INSERT ... ON CONFLICT(id) DO UPDATE SET every column but id and created_at
Upsert(rows, new) ==
    IF \E row \in rows : row.id = new.id
    THEN {IF row.id = new.id THEN [new EXCEPT !.created_at = row.created_at] ELSE row :
             row \in rows}
    ELSE rows \cup {new}

\* POST /api/saveMessage with a message object in the body
saveMessage(mailboxId, message) ==
    /\ message.id = <<>> => Cardinality({row \in DB.messages : row.id \in Range(UUIDs)})
                               < MaxUuids
    /\ LET id == IF message.id # <<>> THEN message.id[1] ELSE FreshUuid
       IN IF "messages" \notin DB.tables
          THEN /\ last' = Call("saveMessage", <<mailboxId, id>>,
                               Raised("no such table: messages"))
               /\ UNCHANGED DB
          ELSE /\ DB' = [DB EXCEPT !.messages = Upsert(@, Inserted(mailboxId, message, id))]
               /\ last' = Call("saveMessage", <<mailboxId, id>>, [id |-> id])
    /\ D1Frame

\* POST /api/saveMessage without one
saveMessageWithoutBody(mailboxId) ==
    /\ last' = Call("fetch", <<"/api/saveMessage", mailboxId>>, 400)
    /\ UNCHANGED DB
    /\ D1Frame

NextD1 ==
    \/ initSchemaD1
    \/ \E request \in D1Requests : getMessages(mailboxIdFrom(request))
    \/ \E request \in D1Requests, message \in D1Messages :
          saveMessage(mailboxIdFrom(request), message)
    \/ \E request \in D1Requests : saveMessageWithoutBody(mailboxIdFrom(request))
    \/ HourPasses

SpecD1 == InitAuth /\ [][NextD1]_vars

\* C30: in the D1-backed worker messages are isolated per mailbox: a
\* saveMessage request for mailbox B, whatever message id the client
\* supplies, changes neither the set nor the contents of the messages that
\* getMessages returns for another mailbox A.
C30_MessagesIsolated ==
    [][\A a \in D1Mailboxes :
          (last'.op = "saveMessage" /\ last'.arg[1] # a) =>
              MessagesOf(a)' = MessagesOf(a)]_vars

====
